---- MODULE Spec2Model ----
(***************************************************************************)
(* Ledger storage and bookkeeping engine of LEDGER_APP:                    *)
(*   core/model.py         RawRow and its fingerprint                      *)
(*   core/validator.py     validate_row / validate_rows                    *)
(*   core/trade.py         create_trade                                    *)
(*   core/reversal.py      create_reversal / create_reversal_pair          *)
(*   core/ledger_store.py  LedgerStore (SQLite table "ledger")             *)
(*   core/service.py       LedgerService                                   *)
(*                                                                         *)
(* The table is a sequence of records; the position of a record is its pk  *)
(* (INTEGER PRIMARY KEY AUTOINCREMENT on a table without DELETE).          *)
(* A datetime is a record [sec, us] (naive, as every parser of the         *)
(* program produces it); its ISO text orders like the pair (sec, us).      *)
(* A Decimal is a record [hi, lo] denoting hi * 10^HiExp + lo * 10^-LoExp, *)
(* which reaches past the 28 significant digits of the decimal context     *)
(* with machine-size integers.  sha256 is taken to be collision free: a    *)
(* fingerprint is the text that is hashed.                                 *)
(***************************************************************************)
EXTENDS Integers, Sequences, FiniteSets, TLC

VARIABLES
    rows,      \* the table "ledger" as this connection sees it, in pk order
    now,       \* the wall clock, whole seconds
    profile,   \* which family of inputs the callers draw from (never changes)
    last,      \* the last call and what it returned: [op, arg, ret]
    committed, \* how many rows of the table the last COMMIT made durable
    torn,      \* the pks inserted as first leg by an insert_pair that raised
    lock,      \* the write lock of the database file: [holder, pending]
    accepted   \* the fingerprints of the inserts that returned True, in order
               \* (kept where several connections share the file)

vars == <<rows, now, profile, last, committed, torn, lock, accepted>>

----------------------------------------------------------------------------
(* Bounds of the model.                                                    *)

MaxRows == 4       \* rows the table may hold
MaxClock == 2      \* last second the clock reaches
MaxBatch == 2      \* rows in one import

----------------------------------------------------------------------------
(* Program constants.                                                      *)

VALID_TYPES == {"BUY", "SELL", "TRANSFER", "FEE", "REVERSAL"}

Prec == 28         \* significant digits of decimal.getcontext()
FpPlaces == 8      \* f"{amount:.8f}"

(* Scale of the two limbs of a modelled Decimal.                           *)
HiExp == 21
LoExp == 9

None == "<None>"
NoPrice == [none |-> TRUE]

----------------------------------------------------------------------------
(* Text.                                                                   *)

Upper(s) ==
    CASE s = "btc" -> "BTC"
      [] s = "eur" -> "EUR"
      [] s = "fee" -> "FEE"
      [] s = "buy" -> "BUY"
      [] s = "Kraken" -> "KRAKEN"
      [] s = "kraken" -> "KRAKEN"
      [] s = "bank" -> "BANK"
      [] OTHER -> s

Lower(s) ==
    CASE s = "BTC" -> "btc"
      [] s = "EUR" -> "eur"
      [] s = "Kraken" -> "kraken"
      [] s = "KRAKEN" -> "kraken"
      [] s = "BANK" -> "bank"
      [] OTHER -> s

RECURSIVE Repeat(_, _)
Repeat(s, n) == IF n = 0 THEN "" ELSE s \o Repeat(s, n - 1)

RECURSIVE Pow10(_)
Pow10(n) == IF n = 0 THEN 1 ELSE 10 * Pow10(n - 1)

Abs(n) == IF n < 0 THEN -n ELSE n

RECURSIVE Digits(_)
Digits(n) == IF n < 10 THEN 1 ELSE 1 + Digits(n \div 10)

(* n written with at least w digits, zero padded on the left.              *)
Pad(n, w) == Repeat("0", IF Digits(n) < w THEN w - Digits(n) ELSE 0) \o ToString(n)

----------------------------------------------------------------------------
(* Decimal.                                                                *)

Dec(h, l) == [hi |-> h, lo |-> l]
Zero == Dec(0, 0)

Sign(n) == IF n < 0 THEN -1 ELSE IF n > 0 THEN 1 ELSE 0

DecSign(d) == IF d.hi # 0 THEN Sign(d.hi) ELSE Sign(d.lo)
DecNeg(d) == Dec(-d.hi, -d.lo)
DecIsZero(d) == d.hi = 0 /\ d.lo = 0
DecLtZero(d) == DecSign(d) < 0

(* n rounded to a multiple of q, ties to the even multiple                 *)
(* (ROUND_HALF_EVEN, symmetric about zero).                                *)
RoundHalfEven(n, q) ==
    LET m == Abs(n) \div q
        r == Abs(n) % q
        up == 2 * r > q \/ (2 * r = q /\ m % 2 = 1)
    IN  Sign(n) * q * (IF up THEN m + 1 ELSE m)

IsPow10(n) == n = Pow10(Digits(n) - 1)

(* Exponent of the leading digit of hi*10^HiExp + lo*10^-LoExp, hi # 0,    *)
(* |lo| below one unit of hi.                                              *)
Adjusted(d) ==
    HiExp + Digits(Abs(d.hi)) - 1
        - (IF d.lo # 0 /\ Sign(d.lo) # Sign(d.hi) /\ IsPow10(Abs(d.hi))
           THEN 1 ELSE 0)

(* d with its low limb rounded to a multiple of 10^e units.                *)
Quantize(d, e) == IF e <= 0 THEN d ELSE Dec(d.hi, RoundHalfEven(d.lo, Pow10(e)))

(* The context rounding of an exact result to Prec significant digits.     *)
ContextRound(d) ==
    IF d.hi = 0 \/ d.lo = 0 THEN d
    ELSE Quantize(d, Adjusted(d) - (Prec - 1) + LoExp)

(* Decimal.__add__: the exact sum, rounded by the context.                 *)
DecAdd(a, b) == ContextRound(Dec(a.hi + b.hi, a.lo + b.lo))

(* The sum a mathematician means: no rounding.                             *)
ExactAdd(a, b) == Dec(a.hi + b.hi, a.lo + b.lo)

(* The plain notation of sgn * (ha * 10^HiExp + l * 10^-FpPlaces), where  *)
(* hs is the sign of the high limb: the limbs are merged digit by digit,   *)
(* with a borrow from the high limb when the low limb pulls against it.    *)
Plain(sgn, ha, hs, l) ==
    (IF sgn < 0 THEN "-" ELSE "")
    \o (IF ha = 0
        THEN ToString(Abs(l) \div Pow10(FpPlaces))
        ELSE IF l # 0 /\ Sign(l) # hs
        THEN (IF ha = 1 THEN "" ELSE ToString(ha - 1)) \o Repeat("9", HiExp - 9)
                 \o Pad(999999999 - (Abs(l) - 1) \div Pow10(FpPlaces), 9)
        ELSE ToString(ha) \o Pad(Abs(l) \div Pow10(FpPlaces), HiExp))
    \o "."
    \o Pad(IF ha # 0 /\ l # 0 /\ Sign(l) # hs
           THEN (Pow10(FpPlaces) - (Abs(l) % Pow10(FpPlaces))) % Pow10(FpPlaces)
           ELSE Abs(l) % Pow10(FpPlaces), FpPlaces)

(* f"{d:.8f}": d rounded half-even to FpPlaces places, in plain notation;  *)
(* the sign is the sign of d, also when d rounds to zero.                  *)
FormatF8(d) ==
    Plain(DecSign(d), Abs(d.hi), Sign(d.hi),
          RoundHalfEven(d.lo, Pow10(LoExp - FpPlaces)) \div Pow10(LoExp - FpPlaces))

----------------------------------------------------------------------------
(* datetime.                                                               *)

Time(s, u) == [sec |-> s, us |-> u]

(* timestamp.strftime("%Y-%m-%dT%H:%M:%S"): the microseconds are dropped.  *)
Strftime(t) == "2024-01-01T10:00:0" \o ToString(t.sec)

(* timestamp.isoformat(): the fraction is written only when it is not 0.   *)
IsoFormat(t) == Strftime(t) \o (IF t.us = 0 THEN "" ELSE "." \o Pad(t.us, 6))

(* The datetimes of the model.                                             *)
DateTimes == {Time(s, u) : s \in 0..(MaxClock + 1), u \in {0, 500000}}

(* The ISO text of every datetime of the model.                            *)
IsoTexts == [t \in DateTimes |-> IsoFormat(t)]

(* datetime.fromisoformat: the datetime that is written as text.           *)
FromIsoFormat(text) == CHOOSE t \in DateTimes : IsoTexts[t] = text

(* SQLite's comparison of two timestamp columns (TEXT, BINARY collation):  *)
(* the texts share a fixed-width prefix, then a text without its fraction  *)
(* is a prefix of the one with it.                                         *)
TextLess(x, y) ==
    \E a \in {FromIsoFormat(x)}, b \in {FromIsoFormat(y)} :
        a.sec < b.sec \/ (a.sec = b.sec /\ a.us < b.us)

(* datetime < datetime                                                     *)
TimeLess(a, b) == a.sec < b.sec \/ (a.sec = b.sec /\ a.us < b.us)

(* datetime.now().replace(microsecond=0) at a clock reading of t.          *)
TruncateToSecond(t) == Time(t.sec, 0)

----------------------------------------------------------------------------
(* core/model.py: RawRow.                                                  *)

RawRow(ts, ty, as, am, cu, pr, ve, no, i) ==
    [timestamp |-> ts, type |-> ty, asset |-> as, amount |-> am,
     currency |-> cu, price |-> pr, venue |-> ve, note |-> no, id |-> i]

Uuid(k) == "uuid-" \o ToString(k)

(* The k-th identifier uuid4() hands out that no persisted row carries.    *)
RECURSIVE NextFree(_, _, _)
NextFree(used, from, k) ==
    IF Uuid(from) \in used THEN NextFree(used, from + 1, k)
    ELSE IF k = 1 THEN Uuid(from) ELSE NextFree(used, from + 1, k - 1)

FreshId(tbl, k) == NextFree({tbl[i].id : i \in 1..Len(tbl)}, 1, k)

(* A value a caller passed as a str where a datetime or a Decimal is       *)
(* expected.                                                               *)
Text(s) == [text |-> s]
IsText(x) == "text" \in DOMAIN x

(* datetime.fromisoformat raises ValueError for the text of ts.            *)
Unparseable(ts) == IsText(ts) /\ ts.text \notin {IsoTexts[t] : t \in DateTimes}

(* The timestamp after __post_init__: a text that parses is parsed.        *)
FromText(ts) == IF IsText(ts) THEN FromIsoFormat(ts.text) ELSE ts

(* RawRow.__post_init__ for a timestamp that is no unparseable text: a     *)
(* missing id becomes a new uuid, a timestamp text a datetime.             *)
PostInit(row, fresh) ==
    [row EXCEPT !.id = IF @ = None THEN fresh ELSE @,
                !.timestamp = FromText(@)]

(* A fingerprint that also hashes the currency.                            *)
FingerprintWithCurrency(row) ==
    Strftime(row.timestamp) \o Upper(row.type) \o Lower(row.venue)
        \o Upper(row.asset) \o FormatF8(row.amount) \o Upper(row.currency)

(* A fingerprint that also hashes the id.                                  *)
FingerprintWithId(row) ==
    Strftime(row.timestamp) \o Upper(row.type) \o Lower(row.venue)
        \o Upper(row.asset) \o FormatF8(row.amount) \o row.id

(* RawRow.fingerprint: the text handed to sha256.                          *)
Fingerprint(row) ==
    Strftime(row.timestamp) \o Upper(row.type) \o Lower(row.venue)
        \o Upper(row.asset) \o FormatF8(row.amount)

(* The five values the fingerprint is computed from.                       *)
LogicalKey(row) ==
    <<row.timestamp.sec, row.type, row.venue, row.asset, row.amount>>

----------------------------------------------------------------------------
(* core/ledger_store.py: the table and its write operations.               *)

(* Column values that are stored as the caller wrote them.                 *)
RecordVerbatim(row, pk) ==
    [pk |-> pk,
     id |-> IF row.id = None THEN "" ELSE row.id,
     timestamp |-> IsoFormat(row.timestamp),
     type |-> row.type,
     asset |-> row.asset,
     amount |-> row.amount,
     currency |-> row.currency,
     price |-> row.price,
     venue |-> row.venue,
     note |-> row.note,
     row_fp |-> Fingerprint(row)]

(* The column values of the INSERT statement, stored under key pk.  The    *)
(* amount and price columns hold str(Decimal), a text that denotes exactly *)
(* that Decimal, and are modelled by it; imported_at is never read.        *)
Record(row, pk) ==
    [pk |-> pk,
     id |-> IF row.id = None THEN "" ELSE row.id,
     timestamp |-> IsoFormat(row.timestamp),
     type |-> row.type,
     asset |-> Upper(row.asset),
     amount |-> row.amount,
     currency |-> Upper(row.currency),
     price |-> row.price,
     venue |-> Lower(row.venue),
     note |-> row.note,
     row_fp |-> Fingerprint(row)]

(* A table whose index on row_fp is not UNIQUE.                            *)
FpTakenNoIndex(tbl, fp) == FALSE

(* idx_row_fp: would the INSERT raise sqlite3.IntegrityError?              *)
FpTaken(tbl, fp) == \E i \in 1..Len(tbl) : tbl[i].row_fp = fp

(* INSERT OR REPLACE: a duplicate overwrites the row it collides with.     *)
ExecuteOrReplace(tbl, rec) ==
    IF FpTaken(tbl, rec.row_fp)
    THEN [tbl |-> [k \in 1..Len(tbl) |->
                      IF tbl[k].row_fp = rec.row_fp
                      THEN [rec EXCEPT !.pk = k] ELSE tbl[k]],
          ok |-> TRUE]
    ELSE [tbl |-> Append(tbl, rec), ok |-> TRUE]

(* conn.execute("INSERT INTO ledger ..."): the table afterwards and        *)
(* whether the statement succeeded.                                        *)
Execute(tbl, rec) ==
    IF FpTaken(tbl, rec.row_fp)
    THEN [tbl |-> tbl, ok |-> FALSE]
    ELSE [tbl |-> Append(tbl, rec), ok |-> TRUE]

(* One INSERT statement with the column values of row; AUTOINCREMENT gives *)
(* the next pk.                                                            *)
InsertStmt(tbl, row) == Execute(tbl, Record(row, Len(tbl) + 1))

(* INSERT OR IGNORE: a duplicate raises nothing, so True is returned.      *)
StoreInsertIgnore(tbl, row) == [InsertStmt(tbl, row) EXCEPT !.ok = TRUE]

(* LedgerStore.insert                                                      *)
StoreInsert(tbl, row) == InsertStmt(tbl, row)

(* A loop that counts every row as inserted.                               *)
CountedAsInserted(acc, r) ==
    [tbl |-> r.tbl, inserted |-> acc.inserted + 1, skipped |-> acc.skipped]

(* One turn of the loop of import_rows: acc holds the table and the two    *)
(* counters, r is what insert returned.                                    *)
Counted(acc, r) ==
    [tbl |-> r.tbl,
     inserted |-> acc.inserted + (IF r.ok THEN 1 ELSE 0),
     skipped |-> acc.skipped + (IF r.ok THEN 0 ELSE 1)]

(* A loop that is left at the first duplicate.                             *)
ImportOneBreak(acc, row) ==
    IF acc.skipped > 0 THEN acc ELSE Counted(acc, StoreInsert(acc.tbl, row))

ImportOne(acc, row) == Counted(acc, StoreInsert(acc.tbl, row))

(* LedgerStore.import_rows                                                 *)
RECURSIVE StoreImportRows(_, _)
StoreImportRows(tbl, list) ==
    IF list = <<>> THEN [tbl |-> tbl, inserted |-> 0, skipped |-> 0]
    ELSE ImportOne(StoreImportRows(tbl, SubSeq(list, 1, Len(list) - 1)),
                   list[Len(list)])

(* The second statement of insert_pair, after the first returned a.        *)
SecondOfPair(a, b) == [tbl |-> b.tbl, a |-> a.ok, b |-> b.ok]

(* A pair of which the second row is left out when the first is a          *)
(* duplicate.                                                              *)
FirstOfPairOrNone(a, row_b) ==
    IF a.ok THEN SecondOfPair(a, InsertStmt(a.tbl, row_b))
    ELSE [tbl |-> a.tbl, a |-> FALSE, b |-> FALSE]

FirstOfPair(a, row_b) == SecondOfPair(a, InsertStmt(a.tbl, row_b))

(* LedgerStore.insert_pair                                                 *)
StoreInsertPair(tbl, row_a, row_b) == FirstOfPair(InsertStmt(tbl, row_a), row_b)

----------------------------------------------------------------------------
(* core/ledger_store.py: the read operations.                              *)

(* A conversion that leaves the price out.                                 *)
RowToRawRowUnpriced(r) ==
    RawRow(FromIsoFormat(r.timestamp), r.type, r.asset, r.amount, r.currency,
           NoPrice, r.venue, r.note, r.id)

(* LedgerStore._row_to_rawrow                                              *)
RowToRawRow(r) ==
    RawRow(FromIsoFormat(r.timestamp), r.type, r.asset, r.amount, r.currency,
           IF r.price = NoPrice THEN NoPrice ELSE r.price,
           r.venue, r.note, r.id)

(* An index that yields equal timestamps newest row first.                 *)
IndexBeforeNewestFirst(a, b) ==
    TextLess(a.timestamp, b.timestamp)
        \/ (a.timestamp = b.timestamp /\ a.pk > b.pk)

(* ORDER BY timestamp ASC, answered by a scan of idx_timestamp, whose      *)
(* entries are (timestamp, rowid).                                         *)
IndexBefore(a, b) ==
    TextLess(a.timestamp, b.timestamp)
        \/ (a.timestamp = b.timestamp /\ a.pk < b.pk)

RECURSIVE InsertSorted(_, _)
InsertSorted(r, s) ==
    IF s = <<>> THEN <<r>>
    ELSE IF IndexBefore(r, Head(s)) THEN <<r>> \o s
    ELSE <<Head(s)>> \o InsertSorted(r, Tail(s))

(* The query without its ORDER BY: the rows in rowid order.                *)
ScanByRowid(s) == s

RECURSIVE ScanByTimestamp(_)
ScanByTimestamp(s) ==
    IF s = <<>> THEN <<>>
    ELSE InsertSorted(s[Len(s)], ScanByTimestamp(SubSeq(s, 1, Len(s) - 1)))

Keep(s, Test(_)) == SelectSeq(s, Test)

Map(s, F(_)) == [i \in 1..Len(s) |-> F(s[i])]

(* LedgerStore.timeline                                                    *)
Timeline(tbl) == Map(ScanByTimestamp(tbl), RowToRawRow)

(* LedgerStore.count                                                       *)
Count(tbl) == Len(tbl)

(* LedgerStore.get_row_by_pk                                               *)
NoRow == [none |-> TRUE]

(* A lookup that falls back on the newest row.                             *)
GetRowByPkOrNewest(tbl, pk) ==
    IF tbl = <<>> THEN NoRow
    ELSE RowToRawRow(tbl[IF pk \in 1..Len(tbl) THEN pk ELSE Len(tbl)])

GetRowByPk(tbl, pk) == IF pk \in 1..Len(tbl) THEN RowToRawRow(tbl[pk]) ELSE NoRow

(* The query of get_rows_by_id without its ORDER BY.                       *)
GetRowsByIdUnordered(tbl, row_id) ==
    LET Match(r) == r.id = row_id
    IN  Map(Keep(tbl, Match), RowToRawRow)

(* LedgerStore.get_rows_by_id                                              *)
GetRowsById(tbl, row_id) ==
    LET Match(r) == r.id = row_id
    IN  Map(ScanByTimestamp(Keep(tbl, Match)), RowToRawRow)

(* The columns recent_rows selects.                                        *)
Summary(r) ==
    [pk |-> r.pk, id |-> r.id, timestamp |-> r.timestamp, type |-> r.type,
     asset |-> r.asset, amount |-> r.amount, venue |-> r.venue]

(* ORDER BY pk DESC                                                        *)
RECURSIVE InsertByPkDesc(_, _)
InsertByPkDesc(r, s) ==
    IF s = <<>> THEN <<r>>
    ELSE IF r.pk > Head(s).pk THEN <<r>> \o s
    ELSE <<Head(s)>> \o InsertByPkDesc(r, Tail(s))

RECURSIVE ScanByPkDesc(_)
ScanByPkDesc(s) ==
    IF s = <<>> THEN <<>>
    ELSE InsertByPkDesc(Head(s), ScanByPkDesc(Tail(s)))

(* LIMIT n: the first n rows, all of them for a negative n.                *)
Limit(s, n) == IF n < 0 \/ n >= Len(s) THEN s ELSE SubSeq(s, 1, n)

(* The query with ORDER BY pk ASC.                                         *)
RecentRowsOldestFirst(tbl, limit) == Map(Limit(tbl, limit), Summary)

(* LedgerStore.recent_rows                                                 *)
RecentRows(tbl, limit) == Map(Limit(ScanByPkDesc(tbl), limit), Summary)

(* totals.get(key, Decimal("0")) + Decimal(r["amount"]) over the selected  *)
(* rows in the order the query returns them.                               *)
RECURSIVE SumAmounts(_)
SumAmounts(s) ==
    IF s = <<>> THEN Zero
    ELSE DecAdd(SumAmounts(SubSeq(s, 1, Len(s) - 1)), s[Len(s)].amount)

AssetsOf(tbl) == {tbl[i].asset : i \in 1..Len(tbl)}
VenuesOf(tbl) == {tbl[i].venue : i \in 1..Len(tbl)}

(* LedgerStore.asset_balances                                              *)
AssetBalances(tbl) ==
    [a \in AssetsOf(tbl) |->
        LET Match(r) == r.asset = a
        IN  SumAmounts(Keep(tbl, Match))]

(* LedgerStore.venue_balances                                              *)
VenueBalances(tbl) ==
    [v \in VenuesOf(tbl) |->
        LET AtVenue(r) == r.venue = v
            here == Keep(tbl, AtVenue)
        IN  [a \in AssetsOf(here) |->
                LET Match(r) == r.asset = a
                IN  SumAmounts(Keep(here, Match))]]

(* Binary collation of the venue and asset texts the table can hold.       *)
TextRank(s) ==
    CASE s = "" -> 0
      [] s = "BTC" -> 1
      [] s = "EUR" -> 2
      [] s = "bank" -> 3
      [] s = "kraken" -> 4
      [] OTHER -> 5

RECURSIVE SortedKeys(_)
SortedKeys(S) ==
    IF S = {} THEN <<>>
    ELSE LET m == CHOOSE x \in S : \A y \in S : TextRank(x) <= TextRank(y)
         IN  <<m>> \o SortedKeys(S \ {m})

Warning(v, a, b) ==
    [type |-> "NEGATIVE_BALANCE", venue |-> v, asset |-> a, balance |-> b]

(* LedgerStore.diagnostics: the dictionaries are walked in the order the   *)
(* query filled them, ORDER BY venue, asset.                               *)
RECURSIVE WarningsAt(_, _, _)
WarningsAt(v, bal, keys) ==
    IF keys = <<>> THEN <<>>
    ELSE (IF DecLtZero(bal[Head(keys)])
          THEN <<Warning(v, Head(keys), bal[Head(keys)])>> ELSE <<>>)
         \o WarningsAt(v, bal, Tail(keys))

RECURSIVE WarningsOver(_, _)
WarningsOver(venue_bal, keys) ==
    IF keys = <<>> THEN <<>>
    ELSE WarningsAt(Head(keys), venue_bal[Head(keys)],
                    SortedKeys(DOMAIN venue_bal[Head(keys)]))
         \o WarningsOver(venue_bal, Tail(keys))

WarningsIn(venue_bal) == WarningsOver(venue_bal, SortedKeys(DOMAIN venue_bal))

(* LedgerStore.diagnostics                                                 *)
Diagnostics(tbl) == WarningsIn(VenueBalances(tbl))

(* A read that deletes the newest row it has seen.                         *)
QueryAndDelete(tbl, op, arg) ==
    [tbl |-> SubSeq(tbl, 1, Len(tbl) - 1), ret |-> Count(tbl)]

(* The read operation op of the store with the argument arg: a SELECT      *)
(* statement, which leaves the table as it is, and what is made of its     *)
(* result.                                                                 *)
Query(tbl, op, arg) ==
    [tbl |-> tbl,
     ret |-> CASE op = "timeline" -> Timeline(tbl)
               [] op = "asset_balances" -> AssetBalances(tbl)
               [] op = "venue_balances" -> VenueBalances(tbl)
               [] op = "diagnostics" -> Diagnostics(tbl)
               [] op = "recent_rows" -> RecentRows(tbl, arg)
               [] op = "count" -> Count(tbl)
               [] op = "get_row_by_pk" -> GetRowByPk(tbl, arg)
               [] op = "get_rows_by_id" -> GetRowsById(tbl, arg)]

----------------------------------------------------------------------------
(* core/validator.py                                                       *)

NoTime == [none |-> TRUE]

(* A validate_row that returns at the first check that fails.              *)
ValidateRowFirstOnly(row) ==
    LET errors ==
            IF row.id = None \/ row.id = "" THEN <<"id">>
            ELSE IF row.timestamp = NoTime THEN <<"timestamp">>
            ELSE IF row.type \notin VALID_TYPES THEN <<"type">>
            ELSE IF row.asset = "" THEN <<"asset">>
            ELSE IF IsText(row.amount) THEN <<"amount number">>
            ELSE IF DecIsZero(row.amount) THEN <<"amount">>
            ELSE IF row.currency = "" THEN <<"currency">>
            ELSE IF IsText(row.price) THEN <<"price number">>
            ELSE IF row.venue = "" THEN <<"venue">>
            ELSE <<>>
    IN  [ok |-> errors = <<>>, errors |-> errors]

(* validate_row: every check runs; the errors in the order of the checks.  *)
(* A text in place of an amount or a price is one Decimal() cannot read.   *)
ValidateRow(row) ==
    LET errors ==
            (IF row.id = None \/ row.id = "" THEN <<"id">> ELSE <<>>)
         \o (IF row.timestamp = NoTime THEN <<"timestamp">> ELSE <<>>)
         \o (IF row.type \notin VALID_TYPES THEN <<"type">> ELSE <<>>)
         \o (IF row.asset = "" THEN <<"asset">> ELSE <<>>)
         \o (IF IsText(row.amount) THEN <<"amount number">>
             ELSE IF DecIsZero(row.amount) THEN <<"amount">> ELSE <<>>)
         \o (IF row.currency = "" THEN <<"currency">> ELSE <<>>)
         \o (IF IsText(row.price) THEN <<"price number">> ELSE <<>>)
         \o (IF row.venue = "" THEN <<"venue">> ELSE <<>>)
    IN  [ok |-> errors = <<>>, errors |-> errors]

(* A validate_rows that lets every row pass.                               *)
ValidateRowsAll(list) == [valid |-> list, invalid |-> {}]

(* validate_rows                                                           *)
ValidateRows(list) ==
    LET Ok(r) == ValidateRow(r).ok
    IN  [valid |-> Keep(list, Ok),
         invalid |-> {i \in 1..Len(list) : ~ValidateRow(list[i]).ok}]

----------------------------------------------------------------------------
(* core/trade.py and core/reversal.py                                      *)

(* Decimal.__neg__: the negation, rounded by the context.                  *)
DecMinus(d) == ContextRound(DecNeg(d))

(* The types create_trade takes every row type for.                        *)
TradeTypesAny == VALID_TYPES

(* The types create_trade does not raise ValueError for.                   *)
TradeTypes == {"BUY", "SELL"}

(* create_trade, for a type that is BUY or SELL.                           *)
CreateTrade(ts, ty, as, as_amount, cu, cu_amount, ve, pr, no, shared_id) ==
    LET asset_sign == IF ty = "BUY" THEN as_amount ELSE DecMinus(as_amount)
        currency_sign == IF ty = "BUY" THEN DecMinus(cu_amount) ELSE cu_amount
    IN  <<RawRow(ts, ty, as, asset_sign, cu, pr, ve, no, shared_id),
          RawRow(ts, ty, cu, currency_sign, as, pr, ve, no, shared_id)>>

NotePrefix == "reversal of"

(* A reversal that is dated like the row it reverses.                      *)
CreateReversalAtOriginal(original, t, fresh) ==
    RawRow(TruncateToSecond(original.timestamp), "REVERSAL", original.asset,
           DecMinus(original.amount), original.currency, original.price,
           original.venue, NotePrefix \o " " \o original.id, fresh)

(* create_reversal at a clock reading of t.                                *)
CreateReversal(original, t, fresh) ==
    RawRow(TruncateToSecond(t), "REVERSAL", original.asset,
           DecMinus(original.amount), original.currency, original.price,
           original.venue, NotePrefix \o " " \o original.id, fresh)

(* create_reversal_pair: uuid4() is called once for every row.             *)
CreateReversalPair(originals, t, tbl) ==
    [i \in 1..Len(originals) |-> CreateReversal(originals[i], t, FreshId(tbl, i))]

----------------------------------------------------------------------------
(* core/service.py                                                         *)

OperationResult(ok, n, diag, errs) ==
    [success |-> ok, rows_inserted |-> n, diagnostics |-> diag, errors |-> errs]

Failure(errs) == OperationResult(FALSE, 0, <<>>, errs)

(* The call returned a result that reports success.                        *)
Succeeded(ret) == "success" \in DOMAIN ret /\ ret.success

(* The call did not return: an exception of class e left it.               *)
Raise(e) == [raised |-> e]

(* The end of a write operation of the service that inserted w.count rows  *)
(* and left the table w.tbl: a failure when nothing was inserted, else the *)
(* count and the diagnostics of the table.                                 *)
(* An end that attaches no diagnostics.                                    *)
ReportedBare(w) ==
    [tbl |-> w.tbl,
     res |-> IF w.count = 0 THEN Failure(<<"duplicate">>)
             ELSE OperationResult(TRUE, w.count, <<>>, <<>>)]

(* An end that turns a write down when it leaves a negative balance.       *)
ReportedUnlessNegative(w) ==
    [tbl |-> w.tbl,
     res |-> IF w.count = 0 \/ Diagnostics(w.tbl) # <<>> THEN Failure(<<"negative">>)
             ELSE OperationResult(TRUE, w.count, <<>>, <<>>)]

Reported(w) ==
    [tbl |-> w.tbl,
     res |-> IF w.count = 0 THEN Failure(<<"duplicate">>)
             ELSE OperationResult(TRUE, w.count, Diagnostics(w.tbl), <<>>)]

(* A count that takes the row for inserted.                                *)
CountOneAlways(ins) == [tbl |-> ins.tbl, count |-> 1]

CountOne(ins) == [tbl |-> ins.tbl, count |-> IF ins.ok THEN 1 ELSE 0]

(* A count that takes both legs for inserted.                              *)
CountPairBoth(ins) == [tbl |-> ins.tbl, count |-> 2]

(* sum([ins_a, ins_c])                                                     *)
CountPair(ins) ==
    [tbl |-> ins.tbl, count |-> (IF ins.a THEN 1 ELSE 0) + (IF ins.b THEN 1 ELSE 0)]

(* add_row without the validation.                                         *)
AddValidRowUnchecked(tbl, row) == Reported(CountOne(StoreInsert(tbl, row)))

(* add_row from the constructed row on.                                    *)
AddValidRow(tbl, row) ==
    IF ~ValidateRow(row).ok
    THEN [tbl |-> tbl, res |-> Failure(ValidateRow(row).errors)]
    ELSE Reported(CountOne(StoreInsert(tbl, row)))

(* LedgerService.add_row                                                   *)
ServiceAddRow(tbl, ts, ty, as, am, cu, ve, pr, no) ==
    IF Unparseable(ts) THEN [tbl |-> tbl, res |-> Raise("ValueError")]
    ELSE AddValidRow(tbl, PostInit(RawRow(ts, ty, as, am, cu, pr, ve, no, None),
                                   FreshId(tbl, 1)))

(* ", ".join(errs)                                                         *)
RECURSIVE Join(_)
Join(errs) ==
    IF Len(errs) = 1 THEN Head(errs) ELSE Head(errs) \o ", " \o Join(Tail(errs))

(* The errors of the two legs, one text for each leg that has any.         *)
LegErrors(errs_a, errs_c) ==
    (IF errs_a # <<>> THEN <<"Asset: " \o Join(errs_a)>> ELSE <<>>)
    \o (IF errs_c # <<>> THEN <<"Currency: " \o Join(errs_c)>> ELSE <<>>)

(* An add_trade that writes both legs or none: a duplicate leg fails the   *)
(* call.                                                                   *)
AddLegsBothOrNone(tbl, legs) ==
    IF ~ValidateRow(legs[1]).ok \/ ~ValidateRow(legs[2]).ok
    THEN [tbl |-> tbl,
          res |-> Failure(LegErrors(ValidateRow(legs[1]).errors,
                                    ValidateRow(legs[2]).errors))]
    ELSE IF FpTaken(tbl, Fingerprint(legs[1])) \/ FpTaken(tbl, Fingerprint(legs[2]))
    THEN [tbl |-> tbl, res |-> Failure(<<"duplicate">>)]
    ELSE Reported(CountPair(StoreInsertPair(tbl, legs[1], legs[2])))

(* add_trade from the two rows of create_trade on.                         *)
AddLegs(tbl, legs) ==
    IF ~ValidateRow(legs[1]).ok \/ ~ValidateRow(legs[2]).ok
    THEN [tbl |-> tbl,
          res |-> Failure(LegErrors(ValidateRow(legs[1]).errors,
                                    ValidateRow(legs[2]).errors))]
    ELSE Reported(CountPair(StoreInsertPair(tbl, legs[1], legs[2])))

(* LedgerService.add_trade: the unary minus of create_trade raises         *)
(* TypeError for a text, which leaves add_trade; the ValueError of the     *)
(* constructor for a timestamp text is caught.                             *)
ServiceAddTrade(tbl, ts, ty, as, as_amount, cu, cu_amount, ve, pr, no) ==
    IF ty \notin TradeTypes
    THEN [tbl |-> tbl, res |-> Failure(<<"trade type">>)]
    ELSE IF IsText(IF ty = "BUY" THEN cu_amount ELSE as_amount)
    THEN [tbl |-> tbl, res |-> Raise("TypeError")]
    ELSE IF Unparseable(ts)
    THEN [tbl |-> tbl, res |-> Failure(<<"isoformat">>)]
    ELSE AddLegs(tbl, CreateTrade(FromText(ts), ty, as, as_amount, cu, cu_amount,
                                  ve, pr, no, FreshId(tbl, 1)))

RECURSIVE ErrorsOf(_)
ErrorsOf(list) ==
    IF list = <<>> THEN <<>>
    ELSE ValidateRow(Head(list)).errors \o ErrorsOf(Tail(list))

PlusCount(acc, w) == [tbl |-> w.tbl, count |-> acc.count + w.count]

(* One turn of the insert loop of add_reversal.                            *)
InsertOne(acc, row) == PlusCount(acc, CountOne(StoreInsert(acc.tbl, row)))

(* The insert loop of add_reversal.                                        *)
RECURSIVE InsertEach(_, _)
InsertEach(tbl, list) ==
    IF list = <<>> THEN [tbl |-> tbl, count |-> 0]
    ELSE InsertOne(InsertEach(tbl, SubSeq(list, 1, Len(list) - 1)), list[Len(list)])

(* An add_reversal that inserts the reversals that pass validation.        *)
AddReversalsThatPass(tbl, reversals) ==
    LET Ok(r) == ValidateRow(r).ok
    IN  Reported(InsertEach(tbl, Keep(reversals, Ok)))

(* add_reversal from the reversal rows on.                                 *)
AddReversals(tbl, reversals) ==
    IF ErrorsOf(reversals) # <<>>
    THEN [tbl |-> tbl, res |-> Failure(ErrorsOf(reversals))]
    ELSE Reported(InsertEach(tbl, reversals))

(* Reversals of all the rows that share the id, whatever reverse_pair is.  *)
ReversalsOfAll(tbl, original, pair, reverse_pair, t) ==
    CreateReversalPair(pair, t, tbl)

(* add_reversal from the original row and the rows that share its id on.   *)
ReversalsOf(tbl, original, pair, reverse_pair, t) ==
    IF Len(pair) > 1 /\ reverse_pair
    THEN CreateReversalPair(pair, t, tbl)
    ELSE <<CreateReversal(original, t, FreshId(tbl, 1))>>

ReverseRow(tbl, original, reverse_pair, t) ==
    IF original = NoRow THEN [tbl |-> tbl, res |-> Failure(<<"not found">>)]
    ELSE AddReversals(tbl, ReversalsOf(tbl, original,
                                       GetRowsById(tbl, original.id),
                                       reverse_pair, t))

(* LedgerService.add_reversal at a clock reading of t.                     *)
ServiceAddReversal(tbl, pk, reverse_pair, t) ==
    ReverseRow(tbl, GetRowByPk(tbl, pk), reverse_pair, t)

(* import_file after the import: the counters, the rows the validator      *)
(* turned down, and the diagnostics of the table.                          *)
Imported(ins, invalid) ==
    [tbl |-> ins.tbl,
     res |-> [inserted |-> ins.inserted, skipped |-> ins.skipped,
              validation_errors |-> invalid,
              diagnostics |-> Diagnostics(ins.tbl)]]

ImportChecked(tbl, checked) ==
    Imported(IF checked.valid # <<>>
             THEN StoreImportRows(tbl, checked.valid)
             ELSE [tbl |-> tbl, inserted |-> 0, skipped |-> 0],
             checked.invalid)

(* LedgerService.import_file, from the rows load_raw returned.             *)
ServiceImportFile(tbl, loaded) == ImportChecked(tbl, ValidateRows(loaded))

----------------------------------------------------------------------------
(* The callers.  A profile names the operations its callers use and the    *)
(* values they pass; the families are small so that every one of them can  *)
(* be explored to the end.                                                 *)
(*   import    batches of rows imported again and again                    *)
(*   dedup     one logical event entered under several ids and notes       *)
(*   balance   very large and very small amounts at two venues             *)
(*   timeline  rows entered out of order, with and without a fraction      *)
(*   mixed     every write operation of the store and of the service       *)
(*   neutral   very large and very small amounts entered and reversed      *)
(*   invalid   rows with an amount of zero next to valid ones              *)
(*   pair      pairs written by the store, with failures and crashes       *)
(*   malformed texts where a datetime or a Decimal is expected             *)
(*   signs     trades with amounts of either sign and of thirty digits     *)
(*   fields    rows with any of their fields missing or malformed, handed  *)
(*             to validate_row                                             *)
(*   reads     rows written by the store, then validated and read back     *)
(*   outside   one row and its variants in the fields the fingerprint      *)
(*             leaves out                                                  *)
(*   twice     one movement entered at two times under one id, reversed    *)
(*             again and again while time passes                           *)
(*   case      asset, currency and venue written in upper and lower case   *)
(* Besides the operations, "fault" stands for a second statement of        *)
(* insert_pair that raises and "crash" for the end of the process.         *)

Big == Dec(1, 0)          \* Decimal("1E21")
Small == Dec(0, 10)       \* Decimal("0.00000001")
Wide == Dec(1, 10)        \* Decimal("1000000000000000000000.00000001")

Profiles == {"import", "dedup", "balance", "timeline", "mixed", "neutral",
             "invalid", "pair", "malformed",
             "signs", "fields", "reads",
             "outside", "twice", "case"}

(* The read operations of the store.                                       *)
ReadOps == {"timeline", "asset_balances", "venue_balances", "diagnostics",
            "recent_rows", "count", "get_row_by_pk", "get_rows_by_id"}

OpsIn(p) ==
    CASE p = "import" -> {"insert", "import_rows", "import_file"}
      [] p = "dedup" -> {"insert", "add_row"}
      [] p = "balance" -> {"insert"}
      [] p = "timeline" -> {"insert"}
      [] p = "mixed" -> {"insert", "insert_pair", "import_rows", "import_file",
                         "add_row", "add_trade", "add_reversal", "tick"}
      [] p = "neutral" -> {"insert", "add_reversal"}
      [] p = "invalid" -> {"insert", "import_file", "add_row", "add_trade",
                           "add_reversal"}
      [] p = "pair" -> {"insert", "insert_pair", "fault", "crash"}
      [] p = "malformed" -> {"add_row", "add_trade"}
      [] p = "signs" -> {"add_trade"}
      [] p = "fields" -> {"validate_row"}
      [] p = "reads" -> {"insert", "validate_rows"} \cup ReadOps
      [] p = "outside" -> {"insert"}
      [] p = "twice" -> {"insert", "add_reversal", "tick"}
      [] p = "case" -> {"insert"}

TimesIn(p) ==
    CASE p = "timeline" -> {Time(1, 0), Time(1, 500000), Time(2, 0)}
      [] p = "dedup" -> {Time(1, 0), Time(1, 500000)}
      [] p = "twice" -> {Time(0, 0), Time(1, 0)}
      [] p = "malformed" -> {Time(1, 0), Text("2024-01-01T10:00:01"),
                             Text("not a time")}
      [] OTHER -> {Time(1, 0)}

TypesIn(p) ==
    CASE p \in {"mixed", "invalid"} -> {"BUY"}
      [] p = "malformed" -> {"BUY", "GIFT"}
      [] p = "signs" -> {"BUY", "SELL"}
      [] OTHER -> {"FEE"}

AssetsIn(p) ==
    CASE p = "timeline" -> {"BTC", "EUR"}
      [] p = "case" -> {"BTC", "btc"}
      [] OTHER -> {"BTC"}

VenuesIn(p) ==
    CASE p = "balance" -> {"kraken", "bank"}
      [] p = "case" -> {"kraken", "Kraken"}
      [] OTHER -> {"kraken"}

AmountsIn(p) ==
    CASE p = "balance" -> {Big, DecNeg(Big), DecNeg(Small)}
      [] p = "import" -> {Small, DecNeg(Small)}
      [] p = "dedup" -> {Small, DecNeg(Small)}
      [] p = "neutral" -> {Big, Small}
      [] p = "pair" -> {Small, DecNeg(Small)}
      [] p = "malformed" -> {Small, Text("abc")}
      [] p = "signs" -> {Small, DecNeg(Small), Wide}
      [] p = "invalid" -> {Small, Zero}
      [] p = "reads" -> {Small, DecNeg(Small), Zero}
      [] p = "case" -> {Small, DecNeg(Small)}
      [] OTHER -> {Small}

CurrenciesIn(p) ==
    CASE p = "case" -> {"EUR", "eur"}
      [] OTHER -> {"EUR"}

PricesIn(p) ==
    CASE p = "malformed" -> {NoPrice, Text("abc")}
      [] OTHER -> {NoPrice}

(* The types a caller passes to add_trade.                                 *)
TradeTypesIn(p) ==
    CASE p = "malformed" -> {"BUY", "FEE", "TRANSFER", "REVERSAL", "GIFT"}
      [] OTHER -> TypesIn(p)

NotesIn(p) ==
    CASE p = "dedup" -> {None, "n"}
      [] OTHER -> {None}

IdsIn(p) ==
    CASE p = "dedup" -> {"a", "b"}
      [] OTHER -> {"a"}

(* A row and the rows that differ from it in one field the fingerprint     *)
(* does not read in full: the currency, the price, the microseconds, the   *)
(* amount from its 9th decimal place on.                                   *)
VariantsOf(row) ==
    {row,
     [row EXCEPT !.currency = "USD"],
     [row EXCEPT !.price = Small],
     [row EXCEPT !.timestamp = Time(@.sec, 500000)],
     [row EXCEPT !.amount = Dec(@.hi, @.lo + 4)],
     [row EXCEPT !.amount = Dec(@.hi, @.lo + 6)]}

(* The rows a caller hands to the store or imports; none where the caller  *)
(* only uses add_row and add_trade.                                        *)
RowsIn(p) ==
    IF OpsIn(p) \subseteq {"add_row", "add_trade", "validate_row"} THEN {}
    ELSE IF p = "outside"
    THEN VariantsOf(RawRow(Time(1, 0), "FEE", "BTC", Small, "EUR", NoPrice,
                           "kraken", None, "a"))
    ELSE {RawRow(ts, ty, as, am, cu, pr, ve, no, i) :
            ts \in TimesIn(p), ty \in TypesIn(p), as \in AssetsIn(p),
            am \in AmountsIn(p), cu \in CurrenciesIn(p), pr \in PricesIn(p),
            ve \in VenuesIn(p), no \in NotesIn(p), i \in IdsIn(p)}

RECURSIVE ListsUpTo(_, _)
ListsUpTo(S, n) ==
    IF n = 0 THEN {<<>>}
    ELSE LET shorter == ListsUpTo(S, n - 1)
         IN  shorter \cup {Append(l, x) : l \in shorter, x \in S}

(* The lists a caller imports; none where nothing is imported.             *)
BatchesIn(p) ==
    IF {"import_rows", "import_file"} \cap OpsIn(p) = {} THEN {}
    ELSE ListsUpTo(RowsIn(p), MaxBatch)

(* The lists a caller hands to validate_rows.                              *)
ListsIn(p) ==
    IF "validate_rows" \notin OpsIn(p) THEN {}
    ELSE ListsUpTo(RowsIn(p), MaxBatch)

(* The limit recent_rows has when it is called without one.                *)
DefaultLimit == 20

(* An id no row carries.                                                   *)
NoSuchId == "no such id"

(* The arguments a caller passes to the read operation op: a limit, a pk,  *)
(* an id, or nothing.                                                      *)
ArgsIn(p, op) ==
    IF op \notin OpsIn(p) THEN {}
    ELSE CASE op = "recent_rows" -> {0, 1, DefaultLimit}
           [] op = "get_row_by_pk" -> 1..(MaxRows + 1)
           [] op = "get_rows_by_id" -> {"a", NoSuchId}
           [] OTHER -> {<<>>}

(* The rows a caller hands to validate_row: every field well formed or     *)
(* not, in every combination.                                              *)
CandidatesIn(p) ==
    IF p # "fields" THEN {}
    ELSE {RawRow(ts, ty, as, am, cu, pr, ve, None, i) :
            ts \in {Time(1, 0), NoTime}, ty \in {"FEE", "GIFT"}, as \in {"BTC", ""},
            am \in {Small, Zero, Text("abc")}, cu \in {"EUR", ""},
            pr \in {NoPrice, Text("abc")}, ve \in {"kraken", ""}, i \in {"a", ""}}

(* The sub-second part datetime.now() may show.                            *)
Micros == {0, 500000}

----------------------------------------------------------------------------
(* The state machine.                                                      *)

Call(op, arg, ret) == [op |-> op, arg |-> arg, ret |-> ret]

(* No connection holds the write lock of the file; holder is the           *)
(* connection whose transaction holds it (0 for none), pending the row its *)
(* INSERT has written and not yet committed.                               *)
Free == [holder |-> 0, pending |-> <<>>]

(* A store that is created with a row in it.                               *)
InitSeeded ==
    /\ rows = <<Record(RawRow(Time(1, 0), "FEE", "BTC", DecNeg(Small), "EUR",
                              NoPrice, "kraken", None, "a"), 1)>>
    /\ now = 1
    /\ profile \in Profiles
    /\ last = Call("init", <<>>, <<>>)
    /\ committed = 1
    /\ torn = {}
    /\ lock = Free
    /\ accepted = <<>>

Init ==
    /\ rows = <<>>
    /\ now = 1
    /\ profile \in Profiles
    /\ last = Call("init", <<>>, <<>>)
    /\ committed = 0
    /\ torn = {}
    /\ lock = Free
    /\ accepted = <<>>

Fits(tbl) == Len(tbl) <= MaxRows

(* A call of op with arg that left the table tbl and returned ret, and    *)
(* that ran conn.commit() on its way if commit is true.                    *)
Returns(op, arg, tbl, ret, commit) ==
    /\ Fits(tbl)
    /\ rows' = tbl
    /\ last' = Call(op, arg, ret)
    /\ committed' = IF commit THEN Len(tbl) ELSE committed
    /\ UNCHANGED <<now, profile, torn, lock, accepted>>

Insert(row) ==
    /\ "insert" \in OpsIn(profile)
    /\ \E r \in {StoreInsert(rows, row)} :
            Returns("insert", row, r.tbl, [ok |-> r.ok], r.ok)

InsertPair(row_a, row_b) ==
    /\ "insert_pair" \in OpsIn(profile)
    /\ \E r \in {StoreInsertPair(rows, row_a, row_b)} :
            Returns("insert_pair", <<row_a, row_b>>, r.tbl, [a |-> r.a, b |-> r.b],
                    TRUE)

(* insert_pair when its second statement raises something else than        *)
(* sqlite3.IntegrityError: the exception leaves the method, past the       *)
(* commit, with the first row inserted in the open transaction.            *)
InsertPairRaises(row_a, row_b) ==
    /\ "fault" \in OpsIn(profile)
    /\ \E a \in {InsertStmt(rows, row_a)} :
          /\ Fits(a.tbl)
          /\ rows' = a.tbl
          /\ torn' = IF a.ok THEN torn \cup {Len(a.tbl)} ELSE torn
          /\ last' = Call("insert_pair", <<row_a, row_b>>, [raised |-> "Error"])
          /\ UNCHANGED <<now, profile, committed, lock, accepted>>

(* The process ends and the file is opened again: the open transaction is  *)
(* gone.                                                                   *)
Crash ==
    /\ "crash" \in OpsIn(profile)
    /\ rows' = SubSeq(rows, 1, committed)
    /\ torn' = torn \cap 1..committed
    /\ last' = Call("crash", <<>>, <<>>)
    /\ UNCHANGED <<now, profile, committed, lock, accepted>>

ImportRows(list) ==
    /\ "import_rows" \in OpsIn(profile)
    /\ \E r \in {StoreImportRows(rows, list)} :
            Returns("import_rows", list, r.tbl,
                    [inserted |-> r.inserted, skipped |-> r.skipped],
                    r.inserted > 0)

ImportFile(loaded) ==
    /\ "import_file" \in OpsIn(profile)
    /\ \E r \in {ServiceImportFile(rows, loaded)} :
            Returns("import_file", loaded, r.tbl, r.res, r.res.inserted > 0)

AddRow(ts, ty, as, am, cu, ve, pr, no) ==
    /\ "add_row" \in OpsIn(profile)
    /\ \E r \in {ServiceAddRow(rows, ts, ty, as, am, cu, ve, pr, no)} :
            Returns("add_row", RawRow(ts, ty, as, am, cu, pr, ve, no, None), r.tbl,
                    r.res, Succeeded(r.res))

AddTrade(ts, ty, as, as_amount, cu, cu_amount, ve, pr, no) ==
    /\ "add_trade" \in OpsIn(profile)
    /\ \E r \in {ServiceAddTrade(rows, ts, ty, as, as_amount, cu, cu_amount, ve, pr, no)} :
            Returns("add_trade",
                    [timestamp |-> ts, type |-> ty, asset |-> as,
                     asset_amount |-> as_amount, currency |-> cu,
                     currency_amount |-> cu_amount, venue |-> ve,
                     price |-> pr, note |-> no], r.tbl, r.res,
                    \/ Succeeded(r.res)
                    \/ "errors" \in DOMAIN r.res /\ r.res.errors = <<"duplicate">>)

AddReversal(pk, reverse_pair, us) ==
    /\ "add_reversal" \in OpsIn(profile)
    /\ \E r \in {ServiceAddReversal(rows, pk, reverse_pair, Time(now, us))} :
            Returns("add_reversal", [pk |-> pk, reverse_pair |-> reverse_pair],
                    r.tbl, r.res, r.res.success)

(* validate_row called on a row: the store is not involved.                *)
Validate(row) ==
    /\ "validate_row" \in OpsIn(profile)
    /\ \E r \in {ValidateRow(row)} :
            Returns("validate_row", row, rows, r, FALSE)

(* validate_rows called on a list: the store is not involved.              *)
ValidateList(list) ==
    /\ "validate_rows" \in OpsIn(profile)
    /\ \E r \in {ValidateRows(list)} :
            Returns("validate_rows", list, rows, r, FALSE)

(* A read operation of the store; no commit is issued.                     *)
Read(op, arg) ==
    /\ op \in OpsIn(profile)
    /\ \E r \in {Query(rows, op, arg)} :
            Returns(op, arg, r.tbl, r.ret, FALSE)

(* Time passes.                                                            *)
Tick ==
    /\ "tick" \in OpsIn(profile)
    /\ now < MaxClock
    /\ now' = now + 1
    /\ UNCHANGED <<rows, profile, last, committed, torn, lock, accepted>>

Next ==
    \/ \E row \in RowsIn(profile) : Insert(row)
    \/ \E a \in RowsIn(profile), b \in RowsIn(profile) : InsertPair(a, b)
    \/ \E a \in RowsIn(profile), b \in RowsIn(profile) : InsertPairRaises(a, b)
    \/ Crash
    \/ \E list \in BatchesIn(profile) : ImportRows(list)
    \/ \E list \in BatchesIn(profile) : ImportFile(list)
    \/ \E ts \in TimesIn(profile), ty \in TypesIn(profile),
          as \in AssetsIn(profile), am \in AmountsIn(profile),
          cu \in CurrenciesIn(profile), ve \in VenuesIn(profile),
          pr \in PricesIn(profile), no \in NotesIn(profile) :
              AddRow(ts, ty, as, am, cu, ve, pr, no)
    \/ \E ts \in TimesIn(profile), ty \in TradeTypesIn(profile),
          as \in AssetsIn(profile), am \in AmountsIn(profile),
          cu \in CurrenciesIn(profile), cam \in AmountsIn(profile),
          ve \in VenuesIn(profile),
          pr \in PricesIn(profile), no \in NotesIn(profile) :
              AddTrade(ts, ty, as, am, cu, cam, ve, pr, no)
    \/ \E pk \in 1..(MaxRows + 1), rp \in BOOLEAN, us \in Micros :
              AddReversal(pk, rp, us)
    \/ \E row \in CandidatesIn(profile) : Validate(row)
    \/ \E list \in ListsIn(profile) : ValidateList(list)
    \/ \E op \in ReadOps : \E arg \in ArgsIn(profile, op) : Read(op, arg)
    \/ Tick

Spec == Init /\ [][Next]_vars

----------------------------------------------------------------------------
(* Two LedgerStore objects on the same database file.  Each has its own    *)
(* sqlite3 connection; rows is the file as the holder of the write lock    *)
(* sees it, of which the first `committed' rows are what the other         *)
(* connection sees.  insert is taken statement by statement, so that the    *)
(* calls of the two connections interleave between conn.execute and        *)
(* conn.commit.  The read operations are left out.                         *)

Conns == {1, 2}

InitTwo ==
    /\ rows = <<>>
    /\ now = 1
    /\ profile = "outside"
    /\ last = Call("init", <<>>, <<>>)
    /\ committed = 0
    /\ torn = {}
    /\ lock = Free
    /\ accepted = <<>>

(* conn.execute of insert on connection c while no other connection holds  *)
(* the write lock: the statement opens the implicit transaction of c and   *)
(* takes the lock.  If idx_row_fp refuses the row, sqlite3.IntegrityError  *)
(* is caught and False is returned, with the transaction left open and the *)
(* lock held; otherwise the row is written and the call goes on to commit. *)
ExecuteInsert(c, row) ==
    /\ lock.holder \in {0, c}
    /\ lock.pending = <<>>
    /\ \E r \in {InsertStmt(rows, row)} :
          /\ Fits(r.tbl)
          /\ rows' = r.tbl
          /\ lock' = [holder |-> c, pending |-> IF r.ok THEN <<row>> ELSE <<>>]
          /\ last' = IF r.ok THEN last
                    ELSE Call("insert", [conn |-> c, row |-> row], [ok |-> FALSE])
          /\ UNCHANGED <<now, profile, committed, torn, accepted>>

(* conn.execute of insert on connection c while the other connection holds *)
(* the write lock: sqlite3.OperationalError (database is locked) is not    *)
(* caught and leaves insert; nothing is written.                           *)
InsertBusy(c, row) ==
    /\ lock.holder \notin {0, c}
    /\ last' = Call("insert", [conn |-> c, row |-> row],
                    [raised |-> "OperationalError"])
    /\ UNCHANGED <<rows, now, profile, committed, torn, lock, accepted>>

(* conn.commit of insert on connection c, and return True.                 *)
Commit(c) ==
    /\ lock.holder = c
    /\ lock.pending # <<>>
    /\ committed' = Len(rows)
    /\ lock' = Free
    /\ accepted' = Append(accepted, Fingerprint(lock.pending[1]))
    /\ last' = Call("insert", [conn |-> c, row |-> lock.pending[1]], [ok |-> TRUE])
    /\ UNCHANGED <<rows, now, profile, torn>>

(* The connection c is closed, or its process ends, with its transaction   *)
(* open: what it has not committed is rolled back and the lock is free.    *)
Abort(c) ==
    /\ lock.holder = c
    /\ rows' = SubSeq(rows, 1, committed)
    /\ lock' = Free
    /\ last' = Call("close", [conn |-> c], <<>>)
    /\ UNCHANGED <<now, profile, committed, torn, accepted>>

NextTwo ==
    \/ \E c \in Conns, row \in RowsIn(profile) : ExecuteInsert(c, row)
    \/ \E c \in Conns, row \in RowsIn(profile) : InsertBusy(c, row)
    \/ \E c \in Conns : Commit(c)
    \/ \E c \in Conns : Abort(c)

SpecTwo == InitTwo /\ [][NextTwo]_vars

----------------------------------------------------------------------------
(* What the claims speak about.                                            *)

(* The step that is being taken is a call of op (the clock leaves the      *)
(* record of the last call alone).                                         *)
IsCall(op) == last'.op = op /\ now' = now

(* The persisted rows as the read operations return them.                  *)
Persisted(tbl) == [i \in 1..Len(tbl) |-> RowToRawRow(tbl[i])]

RECURSIVE ExactSum(_)
ExactSum(s) ==
    IF s = <<>> THEN Zero
    ELSE ExactAdd(ExactSum(SubSeq(s, 1, Len(s) - 1)), s[Len(s)].amount)

ExactAssetSum(tbl, a) ==
    LET Match(r) == r.asset = a
    IN  ExactSum(Keep(Persisted(tbl), Match))

ExactVenueSum(tbl, v, a) ==
    LET Match(r) == r.venue = v /\ r.asset = a
    IN  ExactSum(Keep(Persisted(tbl), Match))

(* C1: after any sequence of write calls no two persisted rows have the    *)
(* same fingerprint.                                                       *)
C1_UniqueFingerprints ==
    \A i, j \in 1..Len(rows) :
        i # j => Fingerprint(Persisted(rows)[i]) # Fingerprint(Persisted(rows)[j])

(* A trade was added of which one leg was rejected as a duplicate and the  *)
(* other was persisted next to the rows already there.                     *)
C1_Witness ==
    /\ last.op = "add_trade"
    /\ Succeeded(last.ret)
    /\ last.ret.rows_inserted = 1
    /\ Len(rows) >= 3

(* C2: an import_rows call that follows an import_rows call of the same    *)
(* list reports inserted = 0 and skipped = the length of the list, and     *)
(* leaves the persisted rows and count() as they were.                     *)
C2_ImportIdempotent ==
    [][(last.op = "import_rows" /\ IsCall("import_rows") /\ last'.arg = last.arg)
        => /\ last'.ret.inserted = 0
           /\ last'.ret.skipped = Len(last'.arg)
           /\ rows' = rows
           /\ Count(rows') = Count(rows)]_vars

(* A two-row list was imported into a table that held both rows.           *)
C2_Witness ==
    /\ last.op = "import_rows"
    /\ Len(last.arg) = 2
    /\ last.arg[1] # last.arg[2]
    /\ last.ret = [inserted |-> 0, skipped |-> 2]
    /\ Len(rows) = 2

(* C3: every step keeps every persisted row under its primary key with the *)
(* same field values, and count() never decreases.                         *)
C3_AppendOnly ==
    [][~IsCall("crash")
        => /\ Count(rows') >= Count(rows)
           /\ \A pk \in 1..Len(rows) :
                /\ rows'[pk] = rows[pk]
                /\ GetRowByPk(rows', pk) = GetRowByPk(rows, pk)]_vars

(* A reversal was appended to a table that held rows before.               *)
C3_Witness ==
    /\ last.op = "add_reversal"
    /\ last.ret.success
    /\ Len(rows) >= 3

(* C4: insert returns False exactly when a row with the same fingerprint   *)
(* is persisted, and then the table is unchanged; it returns True exactly  *)
(* when the row became one new persisted row.                              *)
C4_InsertResult ==
    [][IsCall("insert") =>
        LET row == last'.arg
            dup == \E i \in 1..Len(rows) :
                      Fingerprint(Persisted(rows)[i]) = Fingerprint(row)
            added == /\ Len(rows') = Len(rows) + 1
                     /\ SubSeq(rows', 1, Len(rows)) = rows
                     /\ rows'[Len(rows')] = Record(row, Len(rows) + 1)
        IN  /\ last'.ret.ok = ~dup
            /\ ~last'.ret.ok => rows' = rows
            /\ last'.ret.ok = added]_vars

(* An insert was rejected as a duplicate.                                  *)
C4_Witness ==
    /\ last.op = "insert"
    /\ ~last.ret.ok
    /\ \E i \in 1..Len(rows) : rows[i].row_fp = Fingerprint(last.arg)

(* C5: two rows equal in (timestamp to the second, type, venue, asset,     *)
(* amount) have equal fingerprints whatever their id and note, and the     *)
(* insert of a row equal in these to a persisted row is rejected.          *)
C5_SameEventRejected ==
    /\ [](\A r1, r2 \in RowsIn(profile) :
            LogicalKey(r1) = LogicalKey(r2) => Fingerprint(r1) = Fingerprint(r2))
    /\ [][(IsCall("insert")
             /\ \E i \in 1..Len(rows) :
                   LogicalKey(Persisted(rows)[i]) = LogicalKey(last'.arg))
          => (~last'.ret.ok /\ rows' = rows)]_vars

(* An insert was rejected although the persisted row it collides with has  *)
(* another id, another note and another sub-second part.                   *)
C5_Witness ==
    /\ last.op = "insert"
    /\ ~last.ret.ok
    /\ \E i \in 1..Len(rows) :
          /\ LogicalKey(Persisted(rows)[i]) = LogicalKey(last.arg)
          /\ Persisted(rows)[i].id # last.arg.id
          /\ Persisted(rows)[i].note # last.arg.note
          /\ Persisted(rows)[i].timestamp # last.arg.timestamp

(* C6: asset_balances() has a key exactly for every asset with a persisted *)
(* row, and its value is the exact sum of the amounts of that asset's      *)
(* persisted rows.                                                         *)
C6_AssetBalancesExact ==
    /\ DOMAIN AssetBalances(rows) = {Persisted(rows)[i].asset : i \in 1..Len(rows)}
    /\ \A a \in DOMAIN AssetBalances(rows) :
          AssetBalances(rows)[a] = ExactAssetSum(rows, a)

(* C7: venue_balances()[v][a] is the exact sum of the amounts of the       *)
(* persisted rows of venue v and asset a, and for every asset the venue    *)
(* balances add up to asset_balances()[a].                                 *)
C7_VenueBalancesExact ==
    LET vb == VenueBalances(rows)
        Over(a) == [i \in 1..Len(SortedKeys(DOMAIN vb)) |->
                      LET v == SortedKeys(DOMAIN vb)[i]
                      IN  [amount |-> IF a \in DOMAIN vb[v] THEN vb[v][a] ELSE Zero]]
    IN  /\ \A v \in DOMAIN vb : \A a \in DOMAIN vb[v] :
              vb[v][a] = ExactVenueSum(rows, v, a)
        /\ \A a \in DOMAIN AssetBalances(rows) :
              ExactSum(Over(a)) = AssetBalances(rows)[a]

(* C8: diagnostics() holds exactly one NEGATIVE_BALANCE warning, with the  *)
(* venue, the asset and the balance, for every (venue, asset) whose        *)
(* amounts sum to less than zero, and no other warning.                    *)
C8_NegativeBalanceWarnings ==
    LET diag == Diagnostics(rows)
        At(v, a) == {i \in 1..Len(diag) : diag[i].venue = v /\ diag[i].asset = a}
    IN  /\ \A i \in 1..Len(rows) :
              LET v == rows[i].venue
                  a == rows[i].asset
                  sum == ExactVenueSum(rows, v, a)
              IN  IF DecLtZero(sum)
                  THEN /\ Cardinality(At(v, a)) = 1
                       /\ \A k \in At(v, a) : diag[k] = Warning(v, a, sum)
                  ELSE At(v, a) = {}
        /\ \A k \in 1..Len(diag) :
              \E i \in 1..Len(rows) :
                  rows[i].venue = diag[k].venue /\ rows[i].asset = diag[k].asset

(* C9: timeline() returns every persisted row exactly once and in          *)
(* non-decreasing order of timestamp, whatever the insertion order.        *)
C9_TimelineSorted ==
    LET tl == Timeline(rows)
    IN  /\ Len(tl) = Count(rows)
        /\ \A i \in 1..Len(rows) :
              Cardinality({k \in 1..Len(tl) : tl[k] = Persisted(rows)[i]}) = 1
        /\ \A i, j \in 1..Len(tl) :
              i < j => ~TimeLess(tl[j].timestamp, tl[i].timestamp)

(* Three or more rows are persisted and some row was inserted after a row  *)
(* with a later timestamp.                                                 *)
C9_Witness ==
    /\ Len(rows) >= 3
    /\ \E i, j \in 1..Len(rows) :
          i < j /\ TimeLess(Persisted(rows)[j].timestamp, Persisted(rows)[i].timestamp)

(* The pk under which a row returned by a read operation is persisted.     *)
PkOf(tbl, row) == CHOOSE k \in 1..Len(tbl) : Persisted(tbl)[k] = row

C11_TradePersistsTwoRows ==
    [][(IsCall("add_trade") /\ Succeeded(last'.ret))
          => /\ Count(rows') = Count(rows) + 2
             /\ SubSeq(rows', 1, Len(rows)) = rows
             /\ \A i \in (Len(rows) + 1)..Len(rows') :
                    /\ rows'[i].id = rows'[Len(rows')].id
                    /\ \A j \in 1..Len(rows) : rows[j].id # rows'[i].id
                    /\ ValidateRow(Persisted(rows')[i]).ok]_vars

(* C11 as amended: every add_trade call that reports success persists as   *)
(* many rows as its rows_inserted says, one or two (a leg whose            *)
(* fingerprint is already persisted is left out); the rows it persists     *)
(* share one freshly generated id and pass validation, and count() grows   *)
(* by exactly rows_inserted.                                               *)
C11_TradePersistsInsertedLegs ==
    [][(IsCall("add_trade") /\ Succeeded(last'.ret))
          => /\ last'.ret.rows_inserted \in {1, 2}
             /\ Count(rows') = Count(rows) + last'.ret.rows_inserted
             /\ SubSeq(rows', 1, Len(rows)) = rows
             /\ \A i \in (Len(rows) + 1)..Len(rows') :
                    /\ rows'[i].id = rows'[Len(rows')].id
                    /\ \A j \in 1..Len(rows) : rows[j].id # rows'[i].id
                    /\ ValidateRow(Persisted(rows')[i]).ok]_vars

(* A trade was added to a table that held rows already, and both of its    *)
(* legs were persisted under one id.                                       *)
C11_Witness ==
    /\ last.op = "add_trade"
    /\ Succeeded(last.ret)
    /\ last.ret.rows_inserted = 2
    /\ Len(rows) >= 3
    /\ rows[Len(rows)].id = rows[Len(rows) - 1].id

(* asset_balances().get(a, Decimal("0"))                                   *)
BalanceOf(tbl, a) == IF a \in AssetsOf(tbl) THEN AssetBalances(tbl)[a] ELSE Zero

(* The number of rows add_reversal(pk, reverse_pair) reverses in tbl.      *)
Reversed(tbl, pk, reverse_pair) ==
    IF reverse_pair /\ Len(GetRowsById(tbl, tbl[pk].id)) > 1
    THEN Len(GetRowsById(tbl, tbl[pk].id)) ELSE 1

(* The rows add_reversal(pk, reverse_pair) reverses are the k rows that    *)
(* were inserted last, so that the table before them is the store as it    *)
(* was before the original rows were inserted.                             *)
ReversesNewest(tbl, pk, reverse_pair, k) ==
    /\ pk \in (Len(tbl) - k + 1)..Len(tbl)
    /\ k > 1 => \A i \in (Len(tbl) - k + 1)..Len(tbl) : tbl[i].id = tbl[pk].id

(* C12: after add_reversal succeeds for a row (or, with reverse_pair, for  *)
(* its full pair), asset_balances() gives for each affected asset the      *)
(* balance the asset had before the original rows were inserted, whatever  *)
(* else the store holds.  Stated for the calls that reverse the rows       *)
(* inserted last and insert a reversal for every one of them.              *)
C12_ReversalNeutral ==
    [][(IsCall("add_reversal") /\ Succeeded(last'.ret))
          => \A k \in {Reversed(rows, last'.arg.pk, last'.arg.reverse_pair)} :
                (/\ last'.ret.rows_inserted = k
                 /\ ReversesNewest(rows, last'.arg.pk, last'.arg.reverse_pair, k))
                => \A i \in (Len(rows) - k + 1)..Len(rows) :
                      BalanceOf(rows', rows[i].asset)
                          = BalanceOf(SubSeq(rows, 1, Len(rows) - k), rows[i].asset)]_vars

(* The rows add_row and add_trade hand to validate_row for the arguments   *)
(* arg, built while the table is tbl; none when the call ends before.      *)
RowsBuilt(op, arg, tbl) ==
    IF Unparseable(arg.timestamp) THEN <<>>
    ELSE IF op = "add_row" THEN <<PostInit(arg, FreshId(tbl, 1))>>
    ELSE IF arg.type \notin TradeTypes THEN <<>>
    ELSE IF IsText(IF arg.type = "BUY" THEN arg.currency_amount ELSE arg.asset_amount)
    THEN <<>>
    ELSE CreateTrade(FromText(arg.timestamp), arg.type, arg.asset, arg.asset_amount,
                     arg.currency, arg.currency_amount, arg.venue, arg.price,
                     arg.note, FreshId(tbl, 1))

(* C13: an add_row or add_trade call for which validation fails returns a  *)
(* result with success false and a non-empty error list, and leaves the    *)
(* store as it was.                                                        *)
C13_InvalidRejected ==
    [][((IsCall("add_row") \/ IsCall("add_trade"))
            /\ ErrorsOf(RowsBuilt(last'.op, last'.arg, rows)) # <<>>)
          => /\ ~last'.ret.success
             /\ last'.ret.errors # <<>>
             /\ rows' = rows]_vars

(* A trade with a leg of amount zero was turned down while the table held  *)
(* rows.                                                                   *)
C13_Witness ==
    /\ last.op = "add_trade"
    /\ ErrorsOf(RowsBuilt(last.op, last.arg, rows)) # <<>>
    /\ ~last.ret.success
    /\ Len(rows) >= 1

(* C14: an import persists none of the rows of a batch if any row of the   *)
(* batch fails validation.                                                 *)
C14_ImportAllOrNothing ==
    [][(IsCall("import_file") /\ ErrorsOf(last'.arg) # <<>>) => rows' = rows]_vars

(* C18: add_reversal for a pk that identifies no persisted row returns a   *)
(* failure result with a non-empty error list and leaves the store as it   *)
(* was.                                                                    *)
C18_ReversalOfNoRow ==
    [][(IsCall("add_reversal") /\ last'.arg.pk \notin {rows[i].pk : i \in 1..Len(rows)})
          => /\ ~last'.ret.success
             /\ last'.ret.errors # <<>>
             /\ rows' = rows]_vars

(* A reversal was asked for a pk beyond the rows the table holds.          *)
C18_Witness ==
    /\ last.op = "add_reversal"
    /\ Len(rows) >= 1
    /\ last.arg.pk > Len(rows)
    /\ ~last.ret.success

(* The reversals add_reversal(pk, reverse_pair) builds in the table tbl    *)
(* at the clock reading now.                                               *)
Built(tbl, pk, reverse_pair) ==
    ReversalsOf(tbl, GetRowByPk(tbl, pk), GetRowsById(tbl, tbl[pk].id),
                reverse_pair, Time(now, 0))

(* rev is a reversal of the persisted row r.                               *)
Reverses(rev, r) ==
    /\ rev.type = "REVERSAL"
    /\ rev.asset = r.asset /\ rev.venue = r.venue
    /\ rev.amount = DecMinus(r.amount)
    /\ rev.note = NotePrefix \o " " \o r.id

(* C19: add_reversal builds one reversal for every row that shares the id  *)
(* of the original when reverse_pair is set and more than one row shares   *)
(* that id, and otherwise exactly one reversal, of the target row only.    *)
C19_ReversalsBuilt ==
    \A pk \in 1..Len(rows), rp \in BOOLEAN :
        LET sharing == {i \in 1..Len(rows) : rows[i].id = rows[pk].id}
            revs == Built(rows, pk, rp)
        IN  IF rp /\ Cardinality(sharing) > 1
            THEN /\ Len(revs) = Cardinality(sharing)
                 /\ \E f \in [1..Len(revs) -> sharing] :
                        /\ \A i \in sharing : \E k \in 1..Len(revs) : f[k] = i
                        /\ \A k \in 1..Len(revs) : Reverses(revs[k], rows[f[k]])
            ELSE /\ Len(revs) = 1
                 /\ Reverses(revs[1], rows[pk])

(* A pair was reversed as a whole, and one row of a pair was reversed      *)
(* alone: the table holds two rows under one id, a reversal for each of    *)
(* them from one call, and the call before the last state reversed one.    *)
C19_Witness ==
    /\ last.op = "add_reversal"
    /\ Succeeded(last.ret)
    /\ last.ret.rows_inserted = 2
    /\ \E i, j \in 1..Len(rows) :
          /\ i # j /\ rows[i].id = rows[j].id
          /\ Reverses(rows[Len(rows) - 1], rows[i])
          /\ Reverses(rows[Len(rows)], rows[j])

(* C20: add_reversal validates every reversal it built before it inserts   *)
(* any, so a validation failure leaves no reversal row persisted, also for *)
(* a pair of which only one leg is invalid.                                *)
C20_ReversalsValidatedFirst ==
    [][(/\ IsCall("add_reversal")
        /\ last'.arg.pk \in 1..Len(rows)
        /\ ErrorsOf(Built(rows, last'.arg.pk, last'.arg.reverse_pair)) # <<>>)
          => /\ rows' = rows
             /\ ~last'.ret.success
             /\ last'.ret.errors # <<>>]_vars

(* The reversal of a pair was turned down of which one row has a valid     *)
(* reversal and the other has not.                                         *)
C20_Witness ==
    /\ last.op = "add_reversal"
    /\ last.arg.reverse_pair
    /\ last.arg.pk \in 1..Len(rows)
    /\ ~last.ret.success
    /\ \E k, m \in 1..Len(Built(rows, last.arg.pk, TRUE)) :
          /\ ValidateRow(Built(rows, last.arg.pk, TRUE)[k]).ok
          /\ ~ValidateRow(Built(rows, last.arg.pk, TRUE)[m]).ok

(* C15: insert_pair is atomic with respect to a crash or an I/O failure:   *)
(* when it fails after the INSERT of its first leg and before the commit,  *)
(* the first leg is durable in no later state, whatever insert and         *)
(* insert_pair calls follow on the same store object.                      *)
C15_PairAtomic == \A pk \in torn : pk > committed

(* The fingerprint of row is the fingerprint of a row of the table tbl.    *)
Known(tbl, row) ==
    \E i \in 1..Len(tbl) : Fingerprint(Persisted(tbl)[i]) = Fingerprint(row)

(* C16: insert_pair(A, B) returns (a, b) where a is true iff the           *)
(* fingerprint of A was not persisted before the call and b is true iff    *)
(* the fingerprint of B was not persisted before the call and is not that  *)
(* of an A just inserted; the legs reported true are persisted, in this    *)
(* order, and the others are not, so that one leg can be persisted without *)
(* the other.                                                              *)
C16_PairPerRow ==
    [][(IsCall("insert_pair") /\ "raised" \notin DOMAIN last'.ret)
          => /\ last'.ret.a = ~Known(rows, last'.arg[1])
             /\ last'.ret.b = (/\ ~Known(rows, last'.arg[2])
                               /\ ~(/\ last'.ret.a
                                    /\ Fingerprint(last'.arg[1])
                                          = Fingerprint(last'.arg[2])))
             /\ rows' = rows
                    \o (IF last'.ret.a
                        THEN <<Record(last'.arg[1], Len(rows) + 1)>> ELSE <<>>)
                    \o (IF last'.ret.b
                        THEN <<Record(last'.arg[2],
                                      Len(rows) + (IF last'.ret.a THEN 2 ELSE 1))>>
                        ELSE <<>>)]_vars

(* A pair was written of which the first leg was a duplicate and the       *)
(* second was persisted.                                                   *)
C16_Witness ==
    /\ last.op = "insert_pair"
    /\ "raised" \notin DOMAIN last.ret
    /\ ~last.ret.a /\ last.ret.b
    /\ rows[Len(rows)].row_fp = Fingerprint(last.arg[2])
    /\ \E i \in 1..(Len(rows) - 1) : rows[i].row_fp = Fingerprint(last.arg[1])

(* C17: no write operation of the service raises for malformed input or    *)
(* duplicates: every add_row, add_trade and add_reversal call, also with   *)
(* a timestamp text that does not parse or an amount or price that is no   *)
(* decimal value, returns an OperationResult.                              *)
C17_NothingRaised ==
    last.op \in {"add_row", "add_trade", "add_reversal"}
        => "raised" \notin DOMAIN last.ret /\ "success" \in DOMAIN last.ret

(* C21: add_trade with a type other than BUY or SELL, the row types        *)
(* TRANSFER, FEE and REVERSAL among them, returns success false and leaves *)
(* the store as it was.                                                    *)
C21_TradeTypeRejected ==
    [][(IsCall("add_trade") /\ last'.arg.type \notin {"BUY", "SELL"})
          => /\ "success" \in DOMAIN last'.ret
             /\ ~last'.ret.success
             /\ rows' = rows]_vars

(* A trade of type TRANSFER was turned down while the table held rows.     *)
C21_Witness ==
    /\ last.op = "add_trade"
    /\ last.arg.type = "TRANSFER"
    /\ "success" \in DOMAIN last.ret
    /\ ~last.ret.success
    /\ Len(rows) >= 1

(* The rows a call of add_row, add_trade or add_reversal with arg builds   *)
(* and validates while the table is tbl.                                   *)
RowsOf(op, arg, tbl) ==
    IF op = "add_reversal"
    THEN (IF arg.pk \in 1..Len(tbl) THEN Built(tbl, arg.pk, arg.reverse_pair)
          ELSE <<>>)
    ELSE RowsBuilt(op, arg, tbl)

(* The rows of built are valid, and their fingerprints are new to the      *)
(* table tbl and differ from one another.                                  *)
ValidAndNew(tbl, built) ==
    /\ built # <<>>
    /\ ErrorsOf(built) = <<>>
    /\ \A i \in 1..Len(built) : ~Known(tbl, built[i])
    /\ \A i, j \in 1..Len(built) :
          i # j => Fingerprint(built[i]) # Fingerprint(built[j])

(* The (venue, asset) places of the table tbl that venue_balances() shows  *)
(* below zero.                                                             *)
NegativePlaces(tbl) ==
    {<<tbl[i].venue, tbl[i].asset>> : i \in
        {k \in 1..Len(tbl) : DecLtZero(VenueBalances(tbl)[tbl[k].venue][tbl[k].asset])}}

(* C22: a write is never blocked by a negative balance: add_row, add_trade *)
(* and add_reversal of valid rows that are no duplicates succeed and       *)
(* persist the rows also when a (venue, asset) balance is negative         *)
(* afterwards, and every negative balance shows as a warning in the        *)
(* diagnostics of the result.                                              *)
C22_NegativeNeverBlocks ==
    [][((IsCall("add_row") \/ IsCall("add_trade") \/ IsCall("add_reversal"))
            /\ ValidAndNew(rows, RowsOf(last'.op, last'.arg, rows)))
          => /\ Succeeded(last'.ret)
             /\ Len(rows') = Len(rows) + Len(RowsOf(last'.op, last'.arg, rows))
             /\ \A place \in NegativePlaces(rows') :
                    \E k \in 1..Len(last'.ret.diagnostics) :
                        /\ last'.ret.diagnostics[k].type = "NEGATIVE_BALANCE"
                        /\ last'.ret.diagnostics[k].venue = place[1]
                        /\ last'.ret.diagnostics[k].asset = place[2]]_vars

(* A row was added that took a balance below zero, and the call succeeded  *)
(* with the warning.                                                       *)
C22_Witness ==
    /\ last.op = "add_row"
    /\ Succeeded(last.ret)
    /\ NegativePlaces(rows) # {}
    /\ last.ret.diagnostics # <<>>
    /\ DecLtZero(rows[Len(rows)].amount)

(* C23: the result of every successful add_row, add_trade and add_reversal *)
(* and of every import carries the list diagnostics() returns on the store *)
(* right after the write.                                                  *)
C23_FreshDiagnostics ==
    [][(\/ IsCall("import_file")
        \/ /\ IsCall("add_row") \/ IsCall("add_trade") \/ IsCall("add_reversal")
           /\ Succeeded(last'.ret))
          => last'.ret.diagnostics = Diagnostics(rows')]_vars

(* A trade succeeded and its result carries the warning for the currency   *)
(* it paid with.                                                           *)
C23_Witness ==
    /\ last.op = "add_trade"
    /\ Succeeded(last.ret)
    /\ last.ret.diagnostics # <<>>
    /\ last.ret.diagnostics = Diagnostics(rows)

(* C24: add_row of a row whose fingerprint is already persisted returns    *)
(* success false with rows_inserted = 0 and a reason, raises nothing, and  *)
(* leaves count() as it was.                                               *)
C24_DuplicateRowRejected ==
    [][(/\ IsCall("add_row")
        /\ RowsBuilt("add_row", last'.arg, rows) # <<>>
        /\ ~IsText(last'.arg.amount)
        /\ Known(rows, RowsBuilt("add_row", last'.arg, rows)[1]))
          => /\ "success" \in DOMAIN last'.ret
             /\ ~last'.ret.success
             /\ last'.ret.rows_inserted = 0
             /\ last'.ret.errors # <<>>
             /\ Count(rows') = Count(rows)]_vars

(* A valid row was turned down as a duplicate of a persisted row that has  *)
(* another id.                                                             *)
C24_Witness ==
    /\ last.op = "add_row"
    /\ "success" \in DOMAIN last.ret
    /\ last.ret.errors = <<"duplicate">>
    /\ \E i \in 1..Len(rows) :
          /\ rows[i].row_fp = Fingerprint(PostInit(last.arg, FreshId(rows, 1)))
          /\ rows[i].id # FreshId(rows, 1)

(* C25: a store that was just created has count() = 0, an empty timeline,  *)
(* empty asset and venue balance mappings, no diagnostics and no recent    *)
(* rows.                                                                   *)
C25_EmptyStore ==
    last.op = "init"
        => /\ Count(rows) = 0
           /\ Timeline(rows) = <<>>
           /\ DOMAIN AssetBalances(rows) = {}
           /\ DOMAIN VenueBalances(rows) = {}
           /\ Diagnostics(rows) = <<>>
           /\ RecentRows(rows, DefaultLimit) = <<>>

(* The store was created, time has passed and nothing was written yet.     *)
C25_Witness == last.op = "init" /\ now > 1 /\ committed = 0

(* C26: get_rows_by_id(id) returns exactly the persisted rows whose id is  *)
(* the argument, in non-decreasing timestamp order, and get_row_by_pk(pk)  *)
(* returns the row persisted under pk, or not-found when there is none.    *)
C26_Lookups ==
    /\ \A row_id \in {rows[i].id : i \in 1..Len(rows)} \cup {NoSuchId} :
          LET found == GetRowsById(rows, row_id)
              with_id == {i \in 1..Len(rows) : rows[i].id = row_id}
          IN  /\ Len(found) = Cardinality(with_id)
              /\ \A i \in with_id : \E k \in 1..Len(found) : found[k] = Persisted(rows)[i]
              /\ \A k \in 1..Len(found) : found[k].id = row_id
              /\ \A k, m \in 1..Len(found) :
                    k < m => ~TimeLess(found[m].timestamp, found[k].timestamp)
    /\ \A pk \in 0..(Len(rows) + 1) :
          GetRowByPk(rows, pk)
              = IF \E i \in 1..Len(rows) : rows[i].pk = pk
                THEN Persisted(rows)[CHOOSE i \in 1..Len(rows) : rows[i].pk = pk]
                ELSE NoRow

(* Two rows share an id and the later of them was inserted first.          *)
C26_Witness ==
    \E i, j \in 1..Len(rows) :
        /\ i < j
        /\ rows[i].id = rows[j].id
        /\ TextLess(rows[j].timestamp, rows[i].timestamp)
        /\ Len(GetRowsById(rows, rows[i].id)) >= 2

(* C27: recent_rows(limit) returns at most limit summary records, the most *)
(* recently inserted first: primary keys are assigned in strictly          *)
(* increasing insertion order and a key of a persisted row is not used     *)
(* again, so that the first record is the row that was persisted last.     *)
C27_RecentRows ==
    /\ [](\A limit \in 0..(MaxRows + 1) :
            LET recent == RecentRows(rows, limit)
            IN  /\ Len(recent) <= limit
                /\ Len(recent) = IF limit < Len(rows) THEN limit ELSE Len(rows)
                /\ \A k \in 1..Len(recent) :
                      recent[k] = Summary(rows[Len(rows) - k + 1])
                /\ \A k, m \in 1..Len(recent) : k < m => recent[k].pk > recent[m].pk)
    /\ [][~IsCall("crash")
            => \A i \in (Len(rows) + 1)..Len(rows') :
                  /\ \A j \in 1..(i - 1) : rows'[j].pk < rows'[i].pk
                  /\ RecentRows(rows', 1)[1].pk = rows'[Len(rows')].pk]_vars

(* The row inserted last has the earliest timestamp of three, and it is    *)
(* the first of the recent rows.                                           *)
C27_Witness ==
    /\ Len(rows) >= 3
    /\ \A i \in 1..(Len(rows) - 1) : TextLess(rows[Len(rows)].timestamp, rows[i].timestamp)
    /\ RecentRows(rows, 2)[1].pk = rows[Len(rows)].pk
    /\ Len(RecentRows(rows, 2)) = 2

(* The write operations of the service.                                    *)
ServiceWrites == {"import_file", "add_row", "add_trade", "add_reversal"}

(* The row r, as a read returns it, has what validate_row asks for.        *)
WellFormed(r) ==
    /\ ValidateRow(r).ok
    /\ r.type \in {"BUY", "SELL", "TRANSFER", "FEE", "REVERSAL"}
    /\ ~IsText(r.amount) /\ ~DecIsZero(r.amount)
    /\ r.id \notin {"", None} /\ r.asset # "" /\ r.currency # "" /\ r.venue # ""

(* C28: after any sequence of write operations of the service (import,     *)
(* add_row, add_trade, add_reversal) every persisted row passes            *)
(* validate_row: its type is one of BUY, SELL, TRANSFER, FEE, REVERSAL,    *)
(* its amount is not zero and its id, asset, currency and venue are not    *)
(* empty.  Every row such an operation persists is so, and so is every row *)
(* of a store only such operations wrote to.                               *)
C28_PersistedRowsValid ==
    /\ [](OpsIn(profile) \subseteq ServiceWrites
            => \A i \in 1..Len(rows) : WellFormed(Persisted(rows)[i]))
    /\ [][(\E op \in ServiceWrites : IsCall(op))
            => \A i \in (Len(rows) + 1)..Len(rows') : WellFormed(Persisted(rows')[i])]_vars

(* An import left out a row of amount zero and persisted the valid row     *)
(* that came with it.                                                      *)
C28_Witness ==
    /\ last.op = "import_file"
    /\ last.ret.validation_errors # {}
    /\ last.ret.inserted >= 1
    /\ \A i \in 1..Len(rows) : WellFormed(Persisted(rows)[i])

(* C29: every pair of rows add_trade persists is a double-entry pair: the  *)
(* two legs share one id, their amounts have opposite signs, and the       *)
(* currency of each leg is the asset of the other, for every asset_amount  *)
(* and currency_amount add_trade accepts.                                  *)
C29_DoubleEntryPair ==
    [][(IsCall("add_trade") /\ Succeeded(last'.ret) /\ last'.ret.rows_inserted = 2)
          => /\ rows'[Len(rows') - 1].id = rows'[Len(rows')].id
             /\ DecSign(rows'[Len(rows') - 1].amount) = -DecSign(rows'[Len(rows')].amount)
             /\ rows'[Len(rows') - 1].currency = rows'[Len(rows')].asset
             /\ rows'[Len(rows')].currency = rows'[Len(rows') - 1].asset]_vars

(* The two rows create_trade returns for the arguments arg.                *)
Legs(arg, fresh) ==
    CreateTrade(FromText(arg.timestamp), arg.type, arg.asset, arg.asset_amount,
                arg.currency, arg.currency_amount, arg.venue, arg.price, arg.note,
                fresh)

(* C30: create_trade returns two rows with the same fresh id, timestamp,   *)
(* type, venue, price and note; for BUY the amount of the asset leg is     *)
(* +asset_amount and that of the currency leg -currency_amount, for SELL   *)
(* -asset_amount and +currency_amount; the asset of the currency leg is    *)
(* the trade currency and its currency the trade asset.  Stated for the    *)
(* arguments of the last add_trade call that reached create_trade's rows.  *)
C30_CreateTrade ==
    (/\ last.op = "add_trade"
     /\ last.arg.type \in {"BUY", "SELL"}
     /\ ~Unparseable(last.arg.timestamp)
     /\ ~IsText(last.arg.asset_amount) /\ ~IsText(last.arg.currency_amount))
        => \A legs \in {Legs(last.arg, FreshId(rows, 1))} :
              /\ legs[1].id = legs[2].id
              /\ \A i \in 1..Len(rows) : rows[i].id # legs[1].id
              /\ \A k \in 1..2 :
                    /\ legs[k].timestamp = FromText(last.arg.timestamp)
                    /\ legs[k].type = last.arg.type
                    /\ legs[k].venue = last.arg.venue
                    /\ legs[k].price = last.arg.price
                    /\ legs[k].note = last.arg.note
              /\ legs[1].asset = last.arg.asset /\ legs[1].currency = last.arg.currency
              /\ legs[2].asset = last.arg.currency /\ legs[2].currency = last.arg.asset
              /\ legs[1].amount = IF last.arg.type = "BUY" THEN last.arg.asset_amount
                                  ELSE DecNeg(last.arg.asset_amount)
              /\ legs[2].amount = IF last.arg.type = "BUY"
                                  THEN DecNeg(last.arg.currency_amount)
                                  ELSE last.arg.currency_amount

(* The number of rows of built whose fingerprint is neither persisted in   *)
(* tbl nor that of an earlier row of built.                                *)
NewAmong(tbl, built) ==
    Cardinality({i \in 1..Len(built) :
                    /\ ~Known(tbl, built[i])
                    /\ \A j \in 1..(i - 1) :
                          Fingerprint(built[j]) # Fingerprint(built[i])})

(* C31: add_trade reports success whenever at least one of the two legs    *)
(* was persisted: for legs that pass validation, rows_inserted is the      *)
(* number of legs that are no duplicates and the call reports failure only *)
(* when both are; when exactly one leg is a duplicate the result is        *)
(* success with rows_inserted = 1 and the one leg persisted is the only    *)
(* row under its id.                                                       *)
C31_TradeSuccessPerLeg ==
    [][(/\ IsCall("add_trade")
        /\ RowsBuilt("add_trade", last'.arg, rows) # <<>>
        /\ ErrorsOf(RowsBuilt("add_trade", last'.arg, rows)) = <<>>)
          => \A n \in {NewAmong(rows, RowsBuilt("add_trade", last'.arg, rows))} :
                /\ last'.ret.success <=> n >= 1
                /\ last'.ret.rows_inserted = n
                /\ Len(rows') = Len(rows) + n
                /\ SubSeq(rows', 1, Len(rows)) = rows
                /\ n = 1 => \A i \in 1..Len(rows) : rows'[i].id # rows'[Len(rows')].id]_vars

(* A trade was added of which one leg was a duplicate: the call reported   *)
(* success with one row inserted, and no other row carries the id of that  *)
(* row.                                                                    *)
C31_Witness ==
    /\ last.op = "add_trade"
    /\ Succeeded(last.ret)
    /\ last.ret.rows_inserted = 1
    /\ Len(rows) >= 2
    /\ \A i \in 1..(Len(rows) - 1) : rows[i].id # rows[Len(rows)].id

(* C32: create_reversal(original) returns a row with a fresh id different  *)
(* from the original's, type REVERSAL, the original's asset, currency,     *)
(* venue and price, the negation of the original's amount, the current     *)
(* time truncated to whole seconds as timestamp, and the prefix followed   *)
(* by the original's id as note; the reversal of a row that passes         *)
(* validation passes validation.  Stated for every persisted row as        *)
(* original, at every reading of the clock.                                *)
C32_CreateReversal ==
    \A pk \in 1..Len(rows), us \in Micros :
        \A original \in {GetRowByPk(rows, pk)} :
            \A rev \in {CreateReversal(original, Time(now, us), FreshId(rows, 1))} :
                /\ rev.id # original.id
                /\ \A i \in 1..Len(rows) : rows[i].id # rev.id
                /\ rev.type = "REVERSAL"
                /\ rev.asset = original.asset
                /\ rev.currency = original.currency
                /\ rev.venue = original.venue
                /\ rev.price = original.price
                /\ rev.amount = DecNeg(original.amount)
                /\ rev.timestamp = Time(now, 0)
                /\ rev.note = NotePrefix \o " " \o original.id
                /\ ValidateRow(original).ok => ValidateRow(rev).ok

(* The checks of validate_row that fail for row: id present, timestamp a   *)
(* datetime, type in the enumeration, asset not empty, amount a number     *)
(* other than zero, currency not empty, price a number if present, venue   *)
(* not empty.                                                              *)
FailedChecks(row) ==
    (IF row.id \in {None, ""} THEN {"id"} ELSE {})
    \cup (IF row.timestamp \notin DateTimes THEN {"timestamp"} ELSE {})
    \cup (IF row.type \notin {"BUY", "SELL", "TRANSFER", "FEE", "REVERSAL"}
          THEN {"type"} ELSE {})
    \cup (IF row.asset = "" THEN {"asset"} ELSE {})
    \cup (IF IsText(row.amount) \/ row.amount = Zero THEN {"amount"} ELSE {})
    \cup (IF row.currency = "" THEN {"currency"} ELSE {})
    \cup (IF row.price # NoPrice /\ IsText(row.price) THEN {"price"} ELSE {})
    \cup (IF row.venue = "" THEN {"venue"} ELSE {})

(* The check an error message comes from.                                  *)
CheckOf(message) ==
    CASE message = "amount number" -> "amount"
      [] message = "price number" -> "price"
      [] OTHER -> message

(* C33: validate_row runs all eight checks independently and returns       *)
(* ok = True iff no check fails; when several fields are invalid the error *)
(* list holds one entry for each check that failed (id, timestamp, type,   *)
(* asset, amount, currency, price, venue), not only the first.             *)
C33_AllChecksRun ==
    [][IsCall("validate_row")
          => /\ last'.ret.ok <=> FailedChecks(last'.arg) = {}
             /\ Len(last'.ret.errors) = Cardinality(FailedChecks(last'.arg))
             /\ {CheckOf(last'.ret.errors[k]) : k \in 1..Len(last'.ret.errors)}
                    = FailedChecks(last'.arg)]_vars

(* validate_row was called on a row of which all eight fields are invalid  *)
(* and returned eight errors.                                              *)
C33_Witness ==
    /\ last.op = "validate_row"
    /\ ~last.ret.ok
    /\ Len(last.ret.errors) = 8
    /\ Cardinality(FailedChecks(last.arg)) = 8

(* C34: validation and all read operations leave the store unchanged:      *)
(* validate_row, validate_rows, timeline, asset_balances, venue_balances,  *)
(* diagnostics, recent_rows, count, get_row_by_pk and get_rows_by_id never *)
(* add, change or remove a persisted row.                                  *)
C34_ReadsLeaveStore ==
    [][(\E op \in ReadOps \cup {"validate_row", "validate_rows"} : IsCall(op))
          => rows' = rows /\ committed' = committed]_vars

(* A row was read back by its pk from a table that holds rows.             *)
C34_Witness ==
    /\ last.op = "get_row_by_pk"
    /\ Len(rows) >= 2
    /\ last.arg \in 1..Len(rows)
    /\ last.ret = Persisted(rows)[last.arg]

(* C35: the reported insert counts match the store: for every add_row,     *)
(* add_trade and add_reversal call that returns a result, count() after    *)
(* the call minus count() before is the rows_inserted of the result, and   *)
(* the difference is 0 when success is false; for import_rows, inserted +  *)
(* skipped is the number of rows passed and inserted is the difference of  *)
(* the counts.                                                             *)
C35_CountsMatch ==
    [][/\ ((IsCall("add_row") \/ IsCall("add_trade") \/ IsCall("add_reversal"))
            /\ "success" \in DOMAIN last'.ret)
              => /\ Count(rows') - Count(rows) = last'.ret.rows_inserted
                 /\ ~last'.ret.success => Count(rows') = Count(rows)
       /\ IsCall("import_rows")
              => /\ last'.ret.inserted + last'.ret.skipped = Len(last'.arg)
                 /\ last'.ret.inserted = Count(rows') - Count(rows)]_vars

(* An import of two rows into a table that held rows inserted one of them  *)
(* and skipped the other.                                                  *)
C35_Witness ==
    /\ last.op = "import_rows"
    /\ last.ret.inserted = 1
    /\ last.ret.skipped = 1
    /\ Len(rows) >= 2

(* The rows a and b agree in every field but the currency, the price, the  *)
(* sub-second part of the timestamp and the amount.                        *)
SameButOutside(a, b) ==
    /\ a.timestamp.sec = b.timestamp.sec
    /\ a.type = b.type /\ a.asset = b.asset /\ a.venue = b.venue
    /\ a.id = b.id /\ a.note = b.note

(* The amount d cut after its 8th decimal place.                           *)
TruncatedTo8(d) ==
    Dec(d.hi, Sign(d.lo) * Pow10(LoExp - FpPlaces)
                  * (Abs(d.lo) \div Pow10(LoExp - FpPlaces)))

(* The amount d rounded to 8 decimal places, ties to even.                 *)
RoundedTo8(d) == Dec(d.hi, RoundHalfEven(d.lo, Pow10(LoExp - FpPlaces)))

(* C36 as stated: deduplication ignores every field outside the            *)
(* fingerprint: a row that differs from a persisted row only in currency,  *)
(* price, the sub-second part of its timestamp, or amount digits beyond    *)
(* the 8th decimal place is rejected by insert as a duplicate and never    *)
(* contributes to any balance.                                             *)
C36_OutsideFieldsIgnored ==
    [][(/\ IsCall("insert")
        /\ \E i \in 1..Len(rows) :
              /\ SameButOutside(last'.arg, Persisted(rows)[i])
              /\ TruncatedTo8(last'.arg.amount) = TruncatedTo8(rows[i].amount))
          => /\ ~last'.ret.ok
             /\ rows' = rows
             /\ AssetBalances(rows') = AssetBalances(rows)
             /\ VenueBalances(rows') = VenueBalances(rows)]_vars

(* C36 as amended: a row that differs from a persisted row only in         *)
(* currency, price, the sub-second part of its timestamp, or in amount     *)
(* digits beyond the 8th decimal place that round (half to even) to the    *)
(* same 8 decimal places, is rejected by insert as a duplicate and never   *)
(* contributes to any balance.                                             *)
C36_OutsideFieldsRounded ==
    [][(/\ IsCall("insert")
        /\ \E i \in 1..Len(rows) :
              /\ SameButOutside(last'.arg, Persisted(rows)[i])
              /\ RoundedTo8(last'.arg.amount) = RoundedTo8(rows[i].amount))
          => /\ ~last'.ret.ok
             /\ rows' = rows
             /\ AssetBalances(rows') = AssetBalances(rows)
             /\ VenueBalances(rows') = VenueBalances(rows)]_vars

(* A row was turned down that differs from the persisted row in the 9th    *)
(* decimal place of its amount, and the table holds a row with another     *)
(* currency than the first.                                                *)
C36_Witness ==
    /\ last.op = "insert"
    /\ ~last.ret.ok
    /\ Len(rows) = 2
    /\ rows[1].currency # rows[2].currency
    /\ \E i \in 1..2 :
          /\ last.arg.amount # rows[i].amount
          /\ RoundedTo8(last.arg.amount) = RoundedTo8(rows[i].amount)
          /\ SameButOutside(last.arg, Persisted(rows)[i])

(* The pks of the rows add_reversal(pk, reverse_pair) reverses in tbl.     *)
ReversedPks(tbl, pk, reverse_pair) ==
    IF reverse_pair /\ Cardinality({i \in 1..Len(tbl) : tbl[i].id = tbl[pk].id}) > 1
    THEN {i \in 1..Len(tbl) : tbl[i].id = tbl[pk].id}
    ELSE {pk}

(* rec is a REVERSAL row of second sec with the venue, the asset and the   *)
(* negated amount of the persisted row r.                                  *)
ReversalAt(rec, r, sec) ==
    /\ rec.type = "REVERSAL"
    /\ FromIsoFormat(rec.timestamp) = Time(sec, 0)
    /\ rec.venue = r.venue /\ rec.asset = r.asset
    /\ rec.amount = DecMinus(r.amount)

(* C37: reversal rows are deduplicated by the time of the reversal, not by *)
(* the row they reverse: after an add_reversal call whose reversals pass   *)
(* validation the table holds exactly one REVERSAL row of the current      *)
(* second for the venue, asset and negated amount of every row reversed,   *)
(* and rows_inserted counts the distinct ones the table did not hold       *)
(* before; so the same row reversed twice, two originals or two legs of a  *)
(* pair with equal venue, asset and amount give one REVERSAL within one    *)
(* clock second, and a row reversed in another second is reversed again.   *)
C37_ReversalsDedupedBySecond ==
    [][(/\ IsCall("add_reversal")
        /\ last'.arg.pk \in 1..Len(rows)
        /\ ErrorsOf(Built(rows, last'.arg.pk, last'.arg.reverse_pair)) = <<>>)
          => \A pks \in {ReversedPks(rows, last'.arg.pk, last'.arg.reverse_pair)} :
                /\ \A o \in pks :
                      Cardinality({i \in 1..Len(rows') :
                                      ReversalAt(rows'[i], rows[o], now)}) = 1
                /\ last'.ret.rows_inserted
                      = Cardinality({<<rows[o].venue, rows[o].asset, rows[o].amount>> :
                            o \in {x \in pks :
                                     ~\E i \in 1..Len(rows) :
                                          ReversalAt(rows[i], rows[x], now)}})]_vars

(* Two rows under one id with equal venue, asset and amount were reversed  *)
(* as a pair in one second and again in the next, each time with one       *)
(* REVERSAL for both, and a third reversal within that second was turned   *)
(* down: the table holds the two rows and their two reversals.             *)
C37_Witness ==
    /\ last.op = "add_reversal"
    /\ last.arg.reverse_pair
    /\ ~last.ret.success
    /\ last.arg.pk \in 1..Len(rows)
    /\ Len(rows) = 4
    /\ Cardinality(ReversedPks(rows, last.arg.pk, TRUE)) = 2
    /\ \A o \in ReversedPks(rows, last.arg.pk, TRUE) :
          \E i, j \in 1..Len(rows) :
              /\ ReversalAt(rows[i], rows[o], now - 1)
              /\ ReversalAt(rows[j], rows[o], now)

(* The text s is in upper case, in lower case.                             *)
IsUpper(s) == s = Upper(s)
IsLower(s) == s = Lower(s)

(* The rows a and b differ at most in the letter case of asset and venue.  *)
SameButCase(a, b) ==
    /\ Upper(a.asset) = Upper(b.asset) /\ Lower(a.venue) = Lower(b.venue)
    /\ a.timestamp = b.timestamp /\ a.type = b.type /\ a.amount = b.amount
    /\ a.price = b.price /\ a.note = b.note /\ a.id = b.id

(* C38: the store normalises on write consistently with the fingerprint:   *)
(* every persisted row has an uppercase asset and currency and a lowercase *)
(* venue, balances are keyed only by the normalised asset and venue, and a *)
(* row that differs from a persisted row only in the letter case of asset  *)
(* or venue is turned down as its duplicate.                               *)
C38_NormalisedOnWrite ==
    /\ [](/\ \A i \in 1..Len(rows) :
                /\ IsUpper(rows[i].asset) /\ IsUpper(rows[i].currency)
                /\ IsLower(rows[i].venue)
           /\ \A key \in DOMAIN AssetBalances(rows) : IsUpper(key)
           /\ \A v \in DOMAIN VenueBalances(rows) :
                /\ IsLower(v)
                /\ \A a \in DOMAIN VenueBalances(rows)[v] : IsUpper(a))
    /\ [][(/\ IsCall("insert")
            /\ \E i \in 1..Len(rows) :
                  /\ SameButCase(last'.arg, Persisted(rows)[i])
                  /\ last'.arg.currency = rows[i].currency)
              => ~last'.ret.ok /\ rows' = rows]_vars

(* Two rows written with a lowercase asset and a capitalised venue are     *)
(* persisted in normal form, their balance has the one key, and the same   *)
(* row in another letter case was turned down.                             *)
C38_Witness ==
    /\ last.op = "insert"
    /\ ~last.ret.ok
    /\ last.arg.asset = "btc" /\ last.arg.venue = "Kraken"
    /\ Len(rows) = 2
    /\ DOMAIN AssetBalances(rows) = {"BTC"}
    /\ DOMAIN VenueBalances(rows) = {"kraken"}
    /\ \E i \in 1..2 : SameButCase(last.arg, Persisted(rows)[i])

(* The row back was read for the inserted row: same id, timestamp, type,   *)
(* amount, price, note and fingerprint.                                    *)
SameRead(back, row) ==
    /\ back.id = row.id /\ back.timestamp = row.timestamp /\ back.type = row.type
    /\ back.amount = row.amount /\ back.price = row.price /\ back.note = row.note
    /\ Fingerprint(back) = Fingerprint(row)

(* The rows of list that have the fingerprint of row.                      *)
ReturnedFor(list, row) ==
    {list[k] : k \in {x \in 1..Len(list) : Fingerprint(list[x]) = Fingerprint(row)}}

(* The rows get_row_by_pk, get_rows_by_id and timeline can return.         *)
ReadBack(tbl) ==
    {GetRowByPk(tbl, pk) : pk \in 1..Len(tbl)}
    \cup {Timeline(tbl)[k] : k \in 1..Len(tbl)}
    \cup UNION {{GetRowsById(tbl, tbl[i].id)[k] :
                    k \in 1..Len(GetRowsById(tbl, tbl[i].id))} : i \in 1..Len(tbl)}

C40_UniqueAcrossConnections ==
    /\ \A i, j \in 1..Len(rows) : rows[i].row_fp = rows[j].row_fp => i = j
    /\ \A i, j \in 1..Len(accepted) : accepted[i] = accepted[j] => i = j
    /\ Len(accepted) = committed
    /\ \A i \in 1..committed : rows[i].row_fp = accepted[i]

(* C40 witness: connection 1 has executed the INSERT of a row and not yet  *)
(* committed it when connection 2 calls insert with another row of the     *)
(* same fingerprint, which raises; an insert was accepted before.          *)
C40_Witness ==
    /\ last.op = "insert"
    /\ last.ret = [raised |-> "OperationalError"]
    /\ last.arg.conn = 2
    /\ lock.holder = 1
    /\ lock.pending # <<>>
    /\ Fingerprint(lock.pending[1]) = Fingerprint(last.arg.row)
    /\ lock.pending[1] # last.arg.row
    /\ Len(accepted) = 1
====
